---- MODULE Spec2Model ----
(***************************************************************************)
(* Verification model of klepto: the fingerprint/diff engine               *)
(* (src/src/snapshot.rs), the import-origin classifier and the parse       *)
(* pipeline (src/src/klepto.rs), and the import and occurrence extractors  *)
(* (src/src/extract.rs).                                                   *)
(*                                                                         *)
(* Each component is a state machine of its own over the shared variables; *)
(* a component's specification keeps the other components' variables at    *)
(* their idle values.                                                      *)
(***************************************************************************)
EXTENDS Integers, Sequences, FiniteSets, TLC

VARIABLES
    \* ---- fingerprint / diff engine (snapshot.rs)
    kOld,       \* fact projections of the earlier run's Klepto
    kNew,       \* fact projections of the current run's Klepto
    snapOld,    \* Option<Snapshot>: the persisted snapshot of the earlier run
    snapNew,    \* Option<Snapshot>: the snapshot of the current run
    diffFwd,    \* Option<SnapshotDiff>: snapNew.diff(snapOld)
    diffRev,    \* Option<SnapshotDiff>: snapOld.diff(snapNew)
    \* ---- import extraction (extract.rs, extract_imports)
    impFile,    \* Option<items>: the items of the parsed unit given to extract_imports
    impOut,     \* Option<Vec<StolenPath>>: what extract_imports returned
    \* ---- import-origin classifier (klepto.rs, classify_imports)
    clsImports, \* the &mut [StolenPath] given to classify_imports
    clsDone,    \* whether classify_imports has run over clsImports
    \* ---- KleptoBuilder::parse (klepto.rs)
    workspace_members,  \* KleptoBuilder.workspace_members
    dependency_crates,  \* KleptoBuilder.dependency_crates
    files,      \* the parsed units (their items), in candidate order
    parsePc,    \* the statement of parse() that runs next
    parseNext,  \* index of the next file of the extraction loop
    imports,    \* parse()'s local `imports`, then Klepto.imports
    \* ---- occurrence extraction (extract.rs, extract_occurrences)
    occFile,    \* Option<items>: the items of the parsed unit given to extract_occurrences
    occOut,     \* Option<(macros_inv, paths, calls)>: what extract_occurrences returned
    \* ---- function extraction and span index over the same unit
    fnOut,      \* Option<Vec<CapturedFn>>: what extract_functions returned
    idxOut,     \* Option<Vec<FnSpan>>: the spans EnclosingIndex::build stored for the unit
    \* ---- fq_name over two declarations of one crate (extract.rs, fq_name)
    fqDecls,    \* the two declarations: (module path, kind, name) each
    fqNames,    \* Option<(String, String)>: the fq names computed for them
    \* ---- span index lookups (index.rs, FnSpan::contains and EnclosingIndex::enclosing)
    span,       \* Option<FnSpan>: the span FnSpan::contains is called on
    loc,        \* Option<FileLocation>: the location looked up
    containsOut, \* Option<bool>: what span.contains(loc) returned
    by_file,    \* EnclosingIndex.by_file: path -> Vec<FnSpan>
    enclosingOut, \* Option<Option<FnSpan>>: what enclosing(loc) returned
    \* ---- function query (query.rs, FnQuery)
    functions,  \* Klepto.functions, the collection the query reads
    fnQuery,    \* Option<FnQuery>: the builder, its fields as the calls so far left them
    fnCalls,    \* the builder calls made so far, in call order
    fnCollected, \* Option<Vec<CapturedFn>>: what collect() returned
    \* ---- import query (query.rs, ImportQuery)
    k_imports,  \* Klepto.imports, the collection the query reads
    impQuery,   \* Option<ImportQuery>: the builder, its fields as the calls so far left them
    impCalls,   \* the builder calls made so far, in call order
    impCollected, \* Option<Vec<StolenPath>>: what collect() or filter() returned
    \* ---- rules (rules/mod.rs, rules/builtin.rs)
    klepto,     \* Option<Klepto>: the collections the rules read
    runner,     \* Option<RuleRunner>: the rules registered, in order
    registered, \* the registration calls made so far, in call order
    ranRule,    \* Option: the rule whose run was called on its own
    findings,   \* Option<Vec<Finding>>: what run returned
    \* ---- std usage in a no_std crate (klepto.rs parse loop, rules/builtin.rs)
    nsFiles,    \* the parsed files: attributes and items of each
    nsNext,     \* the file the extraction loop takes next
    nsKlepto,   \* Option<Klepto>: no_std_detected, imports and paths so far
    nsFindings, \* Option<Vec<Finding>>: what StdInNoStdCrate::run returned
    \* ---- doc coverage (klepto.rs, Klepto::doc_coverage)
    dcFunctions, \* Klepto.functions, the collection doc_coverage counts
    dcOut,      \* Option<DocCoverage>: what doc_coverage returned
    \* ---- per-file failures (klepto.rs, KleptoBuilder::parse and parse_one)
    candidates, \* the candidate files in parse order, each with what reading and parsing it gives
    ignore_parse_errors, \* KleptoBuilder.ignore_parse_errors
    parallel,   \* whether the build has the feature parallel
    pfPc,       \* where parse() stands: parsing, matching, returned
    pfNext,     \* the candidate the sequential loop takes next
    pfV,        \* the ParsedFiles pushed so far by the sequential loop
    parsed,     \* Option<Result<Vec<ParsedFile>, KleptoError>>
    parseResult, \* Option<Result<Klepto, KleptoError>>: what parse() returned
    \* ---- public surface (extract.rs, extract_public_surface)
    expFile,    \* Option<File>: the unit both extractions are given
    expOut,     \* Option<Vec<ExportedSymbol>>: what extract_public_surface returned
    expImports, \* Option<Vec<StolenPath>>: what extract_imports returned for the unit
    \* ---- leading-separator imports (extract.rs, extract_imports)
    absDecl,    \* Option: a use declaration, its visibility and tree, the separator apart
    absPlainOut, \* Option<Vec<StolenPath>>: extract_imports of the declaration written without the leading separator
    absLeadingOut, \* Option<Vec<StolenPath>>: extract_imports of the declaration written with it
    \* ---- one node visited in a given context (extract.rs and index.rs visitors)
    vsNode,     \* Option: the item the traversal enters
    vsContext,  \* Option: module path, type context and function context before it is entered
    vsAfter,    \* Option<V>: the occurrence visitor after it has left the item
    vsBuilderAfter, \* Option<Builder>: the index builder after it has left the item
    vsFns,      \* Option<Vec<CapturedFn>>: the functions walk_items pushed for the item
    \* ---- merging indices (index.rs, EnclosingIndex::merge)
    mgIndex,    \* EnclosingIndex.by_file of the index merged so far
    mgPrev,     \* by_file of that index before the last merge
    mgMerged,   \* the indices merged so far, in merge order
    mgQuery,    \* Option: a location with enclosing() of it before and after the last merge
    \* ---- use-site views (use_sites.rs)
    usKlepto,   \* the Klepto the views are taken of
    usUsed,     \* used_deps
    usDepOut,   \* what dep_use_sites returned
    usIntOut,   \* what internal_use_sites returned
    \* ---- the two enclosing-function mechanisms, with span-locations
    lcUnit,     \* the unit, every node with its span
    lcFacts,    \* the occurrence facts of the unit
    lcIndex,    \* the span index of the unit
    lcLookup    \* a fact and what enclosing() gave for its location

diffVars == <<kOld, kNew, snapOld, snapNew, diffFwd, diffRev>>
impVars == <<impFile, impOut>>
clsVars == <<clsImports, clsDone>>
setVars == <<workspace_members, dependency_crates>>
parseVars == <<files, parsePc, parseNext, imports>>
occVars == <<occFile, occOut>>
factVars == <<fnOut, idxOut>>
fqVars == <<fqDecls, fqNames>>
indexVars == <<span, loc, containsOut, by_file, enclosingOut>>
fnQueryVars == <<functions, fnQuery, fnCalls, fnCollected>>
impQueryVars == <<k_imports, impQuery, impCalls, impCollected>>
rulesVars == <<klepto, runner, registered, ranRule, findings>>
noStdVars == <<nsFiles, nsNext, nsKlepto, nsFindings>>
docCovVars == <<dcFunctions, dcOut>>
parseFilesVars == <<candidates, ignore_parse_errors, parallel, pfPc, pfNext, pfV, parsed, parseResult>>
exportsVars == <<expFile, expOut, expImports>>
absImportsVars == <<absDecl, absPlainOut, absLeadingOut>>
visitVars == <<vsNode, vsContext, vsAfter, vsBuilderAfter, vsFns>>
mergeVars == <<mgIndex, mgPrev, mgMerged, mgQuery>>
useSitesVars == <<usKlepto, usUsed, usDepOut, usIntOut>>
locatedVars == <<lcUnit, lcFacts, lcIndex, lcLookup>>
vars == <<diffVars, impVars, clsVars, setVars, parseVars, occVars, factVars, fqVars, indexVars, fnQueryVars, impQueryVars, rulesVars, noStdVars, docCovVars, parseFilesVars, exportsVars, absImportsVars, visitVars, mergeVars, useSitesVars, locatedVars>>

\* The variables each component leaves alone.
notDiff == <<impVars, clsVars, setVars, parseVars, occVars, factVars, fqVars, indexVars, fnQueryVars, impQueryVars, rulesVars, noStdVars, docCovVars, parseFilesVars, exportsVars, absImportsVars, visitVars, mergeVars, useSitesVars, locatedVars>>
notImports == <<diffVars, clsVars, setVars, parseVars, occVars, factVars, fqVars, indexVars, fnQueryVars, impQueryVars, rulesVars, noStdVars, docCovVars, parseFilesVars, exportsVars, absImportsVars, visitVars, mergeVars, useSitesVars, locatedVars>>
notClassify == <<diffVars, impVars, parseVars, occVars, factVars, fqVars, indexVars, fnQueryVars, impQueryVars, rulesVars, noStdVars, docCovVars, parseFilesVars, exportsVars, absImportsVars, visitVars, mergeVars, useSitesVars, locatedVars>>
notParse == <<diffVars, impVars, clsVars, occVars, factVars, fqVars, indexVars, fnQueryVars, impQueryVars, rulesVars, noStdVars, docCovVars, parseFilesVars, exportsVars, absImportsVars, visitVars, mergeVars, useSitesVars, locatedVars>>
notOcc == <<diffVars, impVars, clsVars, setVars, parseVars, factVars, fqVars, indexVars, fnQueryVars, impQueryVars, rulesVars, noStdVars, docCovVars, parseFilesVars, exportsVars, absImportsVars, visitVars, mergeVars, useSitesVars, locatedVars>>
notFacts == <<diffVars, impVars, clsVars, setVars, parseVars, occVars, fqVars, indexVars, fnQueryVars, impQueryVars, rulesVars, noStdVars, docCovVars, parseFilesVars, exportsVars, absImportsVars, visitVars, mergeVars, useSitesVars, locatedVars>>
notFq == <<diffVars, impVars, clsVars, setVars, parseVars, occVars, factVars, indexVars, fnQueryVars, impQueryVars, rulesVars, noStdVars, docCovVars, parseFilesVars, exportsVars, absImportsVars, visitVars, mergeVars, useSitesVars, locatedVars>>
notIndex == <<diffVars, impVars, clsVars, setVars, parseVars, occVars, factVars, fqVars, fnQueryVars, impQueryVars, rulesVars, noStdVars, docCovVars, parseFilesVars, exportsVars, absImportsVars, visitVars, mergeVars, useSitesVars, locatedVars>>
notFnQuery == <<diffVars, impVars, clsVars, setVars, parseVars, occVars, factVars, fqVars, indexVars, impQueryVars, rulesVars, noStdVars, docCovVars, parseFilesVars, exportsVars, absImportsVars, visitVars, mergeVars, useSitesVars, locatedVars>>
notImpQuery == <<diffVars, impVars, clsVars, setVars, parseVars, occVars, factVars, fqVars, indexVars, fnQueryVars, rulesVars, noStdVars, docCovVars, parseFilesVars, exportsVars, absImportsVars, visitVars, mergeVars, useSitesVars, locatedVars>>
notRules == <<diffVars, impVars, clsVars, setVars, parseVars, occVars, factVars, fqVars, indexVars, fnQueryVars, impQueryVars, noStdVars, docCovVars, parseFilesVars, exportsVars, absImportsVars, visitVars, mergeVars, useSitesVars, locatedVars>>
notNoStd == <<diffVars, impVars, clsVars, setVars, parseVars, occVars, factVars, fqVars, indexVars, fnQueryVars, impQueryVars, rulesVars, docCovVars, parseFilesVars, exportsVars, absImportsVars, visitVars, mergeVars, useSitesVars, locatedVars>>
notDocCov == <<diffVars, impVars, clsVars, setVars, parseVars, occVars, factVars, fqVars, indexVars, fnQueryVars, impQueryVars, rulesVars, noStdVars, parseFilesVars, exportsVars, absImportsVars, visitVars, mergeVars, useSitesVars, locatedVars>>
notParseFiles == <<diffVars, impVars, clsVars, setVars, parseVars, occVars, factVars, fqVars, indexVars, fnQueryVars, impQueryVars, rulesVars, noStdVars, docCovVars, exportsVars, absImportsVars, visitVars, mergeVars, useSitesVars, locatedVars>>
notExports == <<diffVars, impVars, clsVars, setVars, parseVars, occVars, factVars, fqVars, indexVars, fnQueryVars, impQueryVars, rulesVars, noStdVars, docCovVars, parseFilesVars, absImportsVars, visitVars, mergeVars, useSitesVars, locatedVars>>
notAbsImports == <<diffVars, impVars, clsVars, setVars, parseVars, occVars, factVars, fqVars, indexVars, fnQueryVars, impQueryVars, rulesVars, noStdVars, docCovVars, parseFilesVars, exportsVars, visitVars, mergeVars, useSitesVars, locatedVars>>
notVisit == <<diffVars, impVars, clsVars, setVars, parseVars, occVars, factVars, fqVars, indexVars, fnQueryVars, impQueryVars, rulesVars, noStdVars, docCovVars, parseFilesVars, exportsVars, absImportsVars, mergeVars, useSitesVars, locatedVars>>
notMerge == <<diffVars, impVars, clsVars, setVars, parseVars, occVars, factVars, fqVars, indexVars, fnQueryVars, impQueryVars, rulesVars, noStdVars, docCovVars, parseFilesVars, exportsVars, absImportsVars, visitVars, useSitesVars, locatedVars>>
notUseSites == <<diffVars, impVars, clsVars, setVars, parseVars, occVars, factVars, fqVars, indexVars, fnQueryVars, impQueryVars, rulesVars, noStdVars, docCovVars, parseFilesVars, exportsVars, absImportsVars, visitVars, mergeVars, locatedVars>>
notLocated == <<diffVars, impVars, clsVars, setVars, parseVars, occVars, factVars, fqVars, indexVars, fnQueryVars, impQueryVars, rulesVars, noStdVars, docCovVars, parseFilesVars, exportsVars, absImportsVars, visitVars, mergeVars, useSitesVars>>

(***************************************************************************)
(* Option<T>: None is the empty tuple, Some(v) the one-element tuple.      *)
(***************************************************************************)
None == <<>>
Some(v) == <<v>>
IsSome(o) == o # <<>>
Unwrap(o) == o[1]

\* All sequences over S of length at most n.
BoundedSeq(S, n) == UNION {[1..k -> S] : k \in 0..n}

\* The set of the elements of a sequence.
Range(s) == {s[i] : i \in DOMAIN s}

(***************************************************************************)
(* Bounds of the diff model: the longest function, export and import       *)
(* lists of one run.                                                       *)
(***************************************************************************)
MaxFns == 2
MaxExports == 2
MaxImports == 2

(***************************************************************************)
(* String order.  BTreeMap and BTreeSet iterate their String keys in       *)
(* ascending byte order, and Vec<String>::sort sorts in it; StringOrder    *)
(* lists the strings of the model in that order.                           *)
(***************************************************************************)
StringOrder == <<"crate::a::f", "crate::b::g", "dep::Thing", "std::sync::Arc">>
Rank(s) == CHOOSE i \in DOMAIN StringOrder : StringOrder[i] = s
StrLess(a, b) == Rank(a) < Rank(b)

FqNames == {"crate::a::f", "crate::b::g"}
Signatures == {"fn f () -> u32", "fn f () -> u64"}
ImportPaths == {"dep::Thing", "std::sync::Arc"}

\* FileLocation (model.rs): two places of one file.
Loc(l) == [path |-> "src/lib.rs", line |-> Some(l), column |-> Some(0)]
Locations == {Loc(3), Loc(7)}

\* The fields of CapturedFn, ExportedSymbol and StolenPath that from_klepto
\* reads.  crate::a::f comes with either signature at either place, beside a
\* second function; one export comes at either place, beside a second export.
CapturedFns ==
    [fq_name : {"crate::a::f"}, signature : Signatures, location : Locations]
    \cup {[fq_name |-> "crate::b::g", signature |-> "fn g ()", location |-> Loc(3)]}
ExportedSymbols ==
    {[exported_as |-> "Thing", source_path |-> "dep::Thing", location |-> l] :
        l \in Locations}
    \cup {[exported_as |-> "Thing", source_path |-> "crate::a::Thing",
            location |-> Loc(3)]}

\* One run's facts; a run of the model exercises one projection at a time
\* (diff treats the three projections independently).
KleptoFacts ==
    {[functions |-> fs, exports |-> <<>>, imports |-> <<>>] :
        fs \in BoundedSeq(CapturedFns, MaxFns)}
    \cup {[functions |-> <<>>, exports |-> es, imports |-> <<>>] :
        es \in BoundedSeq(ExportedSymbols, MaxExports)}
    \cup {[functions |-> <<>>, exports |-> <<>>, imports |-> is] :
        is \in BoundedSeq(ImportPaths, MaxImports)}

(***************************************************************************)
(* hash_sig: the blake3 digest of the signature text, in hex.  The digest  *)
(* is modelled as an injective tagging of the text (no collisions among    *)
(* the signatures of the model).                                           *)
(***************************************************************************)
hash_sig(s) == <<"blake3", s>>

\* Vec::sort on strings: insertion into a sorted sequence.
RECURSIVE InsertSorted(_, _)
InsertSorted(s, x) ==
    IF s = <<>> THEN <<x>>
    ELSE IF StrLess(x, Head(s)) THEN <<x>> \o s
    ELSE <<Head(s)>> \o InsertSorted(Tail(s), x)

RECURSIVE SortStrings(_)
SortStrings(v) ==
    IF v = <<>> THEN <<>>
    ELSE InsertSorted(SortStrings(SubSeq(v, 1, Len(v) - 1)), v[Len(v)])

\* Vec::dedup: removes consecutive repeated elements.
RECURSIVE Dedup(_)
Dedup(v) ==
    IF Len(v) <= 1 THEN v
    ELSE IF v[1] = v[2] THEN Dedup(Tail(v))
    ELSE <<v[1]>> \o Dedup(Tail(v))

\* Snapshot::from_klepto
from_klepto(k) ==
    [functions |->
        [i \in DOMAIN k.functions |->
            [fq_name |-> k.functions[i].fq_name,
             sig_hash |-> hash_sig(k.functions[i].signature),
             signature |-> k.functions[i].signature,
             location |-> k.functions[i].location]],
     exports |->
        [i \in DOMAIN k.exports |->
            [exported_as |-> k.exports[i].exported_as,
             source_path |-> k.exports[i].source_path,
             location |-> k.exports[i].location]],
     imports |-> Dedup(SortStrings(k.imports))]

\* The elements of a set of strings as a sequence in ascending order
\* (the iteration order of a BTreeMap's keys or a BTreeSet).
RECURSIVE Ascending(_)
Ascending(S) ==
    IF S = {} THEN <<>>
    ELSE LET m == CHOOSE x \in S : \A y \in S : ~StrLess(y, x)
         IN <<m>> \o Ascending(S \ {m})

\* The BTreeMap built by inserting every finger under its fq name, in list
\* order: a later entry replaces an earlier one with the same key.
FnMapFirstWins(fns) ==
    [k \in {fns[i].fq_name : i \in DOMAIN fns} |->
        fns[CHOOSE i \in DOMAIN fns :
                /\ fns[i].fq_name = k
                /\ \A j \in DOMAIN fns : fns[j].fq_name = k => i <= j]]
FnMap(fns) ==
    [k \in {fns[i].fq_name : i \in DOMAIN fns} |->
        fns[CHOOSE i \in DOMAIN fns :
                /\ fns[i].fq_name = k
                /\ \A j \in DOMAIN fns : fns[j].fq_name = k => j <= i]]

old_map_FirstWins(old) == FnMapFirstWins(old.functions)
old_map(old) == FnMap(old.functions)
new_map(self) == FnMap(self.functions)

\* Whether the loop over new_map pushes (of, nf) to changed_signatures.
SignatureChangedWithLocation(of, nf) ==
    of.sig_hash # nf.sig_hash \/ of.location # nf.location
SignatureChanged(of, nf) == of.sig_hash # nf.sig_hash

added_functions(self, old) ==
    LET om == old_map(old)
        nm == new_map(self)
        Keep(k) == k \notin DOMAIN om
        keys == SelectSeq(Ascending(DOMAIN nm), Keep)
    IN [i \in DOMAIN keys |-> nm[keys[i]]]

changed_signatures(self, old) ==
    LET om == old_map(old)
        nm == new_map(self)
        Keep(k) == k \in DOMAIN om /\ SignatureChanged(om[k], nm[k])
        keys == SelectSeq(Ascending(DOMAIN nm), Keep)
    IN [i \in DOMAIN keys |-> <<om[keys[i]], nm[keys[i]]>>]

removed_functions_VecOrder(self, old) ==
    LET nm == new_map(self)
        Keep(f) == f.fq_name \notin DOMAIN nm
    IN SelectSeq(old.functions, Keep)
removed_functions(self, old) ==
    LET om == old_map(old)
        nm == new_map(self)
        Keep(k) == k \notin DOMAIN nm
        keys == SelectSeq(Ascending(DOMAIN om), Keep)
    IN [i \in DOMAIN keys |-> om[keys[i]]]

\* The key of an export in the BTreeSet<(String, String)>.
ExportKeyWithLocation(e) == <<e.exported_as, e.source_path, e.location>>
ExportKey(e) == <<e.exported_as, e.source_path>>

export_keys(snap) == {ExportKey(snap.exports[i]) : i \in DOMAIN snap.exports}

added_exports(self, old) ==
    LET Keep(e) == ExportKey(e) \notin export_keys(old)
    IN SelectSeq(self.exports, Keep)

removed_exports(self, old) ==
    LET Keep(e) == ExportKey(e) \notin export_keys(self)
    IN SelectSeq(old.exports, Keep)

added_imports(self, old) == Ascending(Range(self.imports) \ Range(old.imports))
removed_imports(self, old) == Ascending(Range(old.imports) \ Range(self.imports))

\* Snapshot::diff
diff(self, old) ==
    [added_functions |-> added_functions(self, old),
     removed_functions |-> removed_functions(self, old),
     changed_signatures |-> changed_signatures(self, old),
     added_exports |-> added_exports(self, old),
     removed_exports |-> removed_exports(self, old),
     added_imports |-> added_imports(self, old),
     removed_imports |-> removed_imports(self, old)]

(***************************************************************************)
(* The diff state machine: two runs' facts, their snapshots, and the diff  *)
(* taken in both directions.                                               *)
(***************************************************************************)
DiffIdle ==
    /\ kOld = None /\ kNew = None
    /\ snapOld = None /\ snapNew = None
    /\ diffFwd = None /\ diffRev = None

ImportsIdle == impFile = None /\ impOut = None

ClassifyIdle == clsImports = <<>> /\ clsDone = FALSE

SetsIdle == workspace_members = {} /\ dependency_crates = {}

ParseIdle == files = <<>> /\ parsePc = "idle" /\ parseNext = 0 /\ imports = <<>>
OccIdle == occFile = <<>> /\ occOut = <<>> /\ fnOut = <<>> /\ idxOut = <<>>
LocatedIdle == lcUnit = <<>> /\ lcFacts = <<>> /\ lcIndex = <<>> /\ lcLookup = <<>>
UseSitesIdle == usKlepto = <<>> /\ usUsed = {} /\ usDepOut = <<>> /\ usIntOut = <<>>
MergeIdle == mgIndex = <<>> /\ mgPrev = <<>> /\ mgMerged = <<>> /\ mgQuery = <<>>
VisitIdle == vsNode = <<>> /\ vsContext = <<>> /\ vsAfter = <<>> /\ vsBuilderAfter = <<>> /\ vsFns = <<>>
AbsImportsIdle == absDecl = <<>> /\ absPlainOut = <<>> /\ absLeadingOut = <<>>
ExportsIdle == expFile = <<>> /\ expOut = <<>> /\ expImports = <<>>
ParseFilesIdle == candidates = <<>> /\ ignore_parse_errors = FALSE /\ parallel = FALSE /\ pfPc = "idle" /\ pfNext = 0 /\ pfV = <<>> /\ parsed = <<>> /\ parseResult = <<>>
DocCovIdle == dcFunctions = <<>> /\ dcOut = <<>>
NoStdIdle == nsFiles = <<>> /\ nsNext = 0 /\ nsKlepto = <<>> /\ nsFindings = <<>>
RulesIdle == klepto = <<>> /\ runner = <<>> /\ registered = <<>> /\ ranRule = <<>> /\ findings = <<>>
ImpQueryIdle == k_imports = <<>> /\ impQuery = <<>> /\ impCalls = <<>> /\ impCollected = <<>>
FnQueryIdle == functions = <<>> /\ fnQuery = <<>> /\ fnCalls = <<>> /\ fnCollected = <<>>
IndexIdle == span = <<>> /\ loc = <<>> /\ containsOut = <<>> /\ by_file = <<>> /\ enclosingOut = <<>>
FqIdle == fqDecls = <<>> /\ fqNames = <<>>

InitDiff ==
    /\ LocatedIdle
    /\ UseSitesIdle
    /\ MergeIdle
    /\ VisitIdle
    /\ AbsImportsIdle
    /\ ExportsIdle
    /\ ParseFilesIdle
    /\ DocCovIdle
    /\ NoStdIdle
    /\ RulesIdle
    /\ ImpQueryIdle
    /\ FnQueryIdle
    /\ IndexIdle
    /\ FqIdle
    /\ ImportsIdle /\ ClassifyIdle /\ SetsIdle /\ ParseIdle /\ OccIdle
    /\ kOld \in {Some(k) : k \in KleptoFacts}
    /\ kNew \in {Some(k) : k \in KleptoFacts}
    /\ snapOld = None /\ snapNew = None
    /\ diffFwd = None /\ diffRev = None

\* Klepto::snapshot of the earlier run (the snapshot is then persisted).
SnapshotOld ==
    /\ IsSome(kOld) /\ snapOld = None
    /\ snapOld' = Some(from_klepto(Unwrap(kOld)))
    /\ UNCHANGED <<kOld, kNew, snapNew, diffFwd, diffRev, notDiff>>

\* Klepto::snapshot of the current run.
SnapshotNew ==
    /\ IsSome(kNew) /\ snapNew = None
    /\ snapNew' = Some(from_klepto(Unwrap(kNew)))
    /\ UNCHANGED <<kOld, kNew, snapOld, diffFwd, diffRev, notDiff>>

\* new.diff(&old)
DiffForward ==
    /\ IsSome(snapOld) /\ IsSome(snapNew) /\ diffFwd = None
    /\ diffFwd' = Some(diff(Unwrap(snapNew), Unwrap(snapOld)))
    /\ UNCHANGED <<kOld, kNew, snapOld, snapNew, diffRev, notDiff>>

\* old.diff(&new)
DiffReverse ==
    /\ IsSome(snapOld) /\ IsSome(snapNew) /\ diffRev = None
    /\ diffRev' = Some(diff(Unwrap(snapOld), Unwrap(snapNew)))
    /\ UNCHANGED <<kOld, kNew, snapOld, snapNew, diffFwd, notDiff>>

NextDiff == SnapshotOld \/ SnapshotNew \/ DiffForward \/ DiffReverse

SpecDiff == InitDiff /\ [][NextDiff]_vars

(***************************************************************************)
(* Properties of the diff engine.                                          *)
(***************************************************************************)
EmptyDiff(d) ==
    /\ d.added_functions = <<>> /\ d.removed_functions = <<>>
    /\ d.changed_signatures = <<>>
    /\ d.added_exports = <<>> /\ d.removed_exports = <<>>
    /\ d.added_imports = <<>> /\ d.removed_imports = <<>>

\* Two entries of one list with the same fq name and different hashes.
HasDuplicateFq(snap) ==
    \E i, j \in DOMAIN snap.functions :
        /\ i < j
        /\ snap.functions[i].fq_name = snap.functions[j].fq_name
        /\ snap.functions[i].sig_hash # snap.functions[j].sig_hash

\* C1: diffing a snapshot against itself gives a diff whose seven lists are
\* all empty, also when the snapshot holds several entries with the same fq
\* name or the same export key.
C1_SelfDiffEmpty ==
    (IsSome(diffFwd) /\ snapNew = snapOld) => EmptyDiff(Unwrap(diffFwd))

C1_Witness ==
    /\ IsSome(diffFwd) /\ snapNew = snapOld
    /\ HasDuplicateFq(Unwrap(snapNew))

SwapPairs(s) == [i \in DOMAIN s |-> <<s[i][2], s[i][1]>>]

\* C2: new=A/old=B and new=B/old=A give mirrored diffs: the added list of one
\* is the removed list of the other (functions, exports, imports), and the
\* changed-signature list of one is the other's with every pair swapped.
C2_DiffMirrored ==
    (IsSome(diffFwd) /\ IsSome(diffRev)) =>
        LET f == Unwrap(diffFwd)
            r == Unwrap(diffRev)
        IN /\ f.added_functions = r.removed_functions
           /\ f.removed_functions = r.added_functions
           /\ f.changed_signatures = SwapPairs(r.changed_signatures)
           /\ f.added_exports = r.removed_exports
           /\ f.removed_exports = r.added_exports
           /\ f.added_imports = r.removed_imports
           /\ f.removed_imports = r.added_imports

C2_Witness ==
    /\ IsSome(diffFwd) /\ IsSome(diffRev)
    /\ Unwrap(diffFwd).changed_signatures # <<>>
    /\ Unwrap(diffFwd).added_functions # <<>>
    /\ HasDuplicateFq(Unwrap(snapOld))

\* The entry a list contributes for fq name k: the last one carrying it.
EntriesOf(fns, k) == {i \in DOMAIN fns : fns[i].fq_name = k}
LastEntry(fns, k) ==
    fns[CHOOSE i \in EntriesOf(fns, k) : \A j \in EntriesOf(fns, k) : j <= i]
CountFq(s, k) == Cardinality({i \in DOMAIN s : s[i].fq_name = k})
CountChanged(s, k) == Cardinality({i \in DOMAIN s : s[i][2].fq_name = k})

\* C3: every fq name is classified by key and hash only: only in the new
\* snapshot, one added entry; only in the old, one removed entry; in both with
\* differing hash, one changed (old, new) entry and no added or removed entry;
\* in both with equal hash, no entry at all, whatever the locations.
C3_ClassifiedByKeyAndHash ==
    IsSome(diffFwd) =>
        LET d == Unwrap(diffFwd)
            new == Unwrap(snapNew).functions
            old == Unwrap(snapOld).functions
        IN \A k \in FqNames :
            LET inNew == EntriesOf(new, k) # {}
                inOld == EntriesOf(old, k) # {}
                added == CountFq(d.added_functions, k)
                removed == CountFq(d.removed_functions, k)
                changed == CountChanged(d.changed_signatures, k)
            IN /\ (inNew /\ ~inOld) =>
                    /\ added = 1 /\ removed = 0 /\ changed = 0
                    /\ LastEntry(new, k) \in Range(d.added_functions)
               /\ (inOld /\ ~inNew) =>
                    /\ added = 0 /\ removed = 1 /\ changed = 0
                    /\ LastEntry(old, k) \in Range(d.removed_functions)
               /\ (inNew /\ inOld
                    /\ LastEntry(new, k).sig_hash # LastEntry(old, k).sig_hash) =>
                    /\ added = 0 /\ removed = 0 /\ changed = 1
                    /\ <<LastEntry(old, k), LastEntry(new, k)>>
                           \in Range(d.changed_signatures)
               /\ (inNew /\ inOld
                    /\ LastEntry(new, k).sig_hash = LastEntry(old, k).sig_hash) =>
                    added = 0 /\ removed = 0 /\ changed = 0
               /\ (~inNew /\ ~inOld) =>
                    added = 0 /\ removed = 0 /\ changed = 0

\* A diff taken over a function present in both snapshots with the same
\* hash at different locations, beside a function that was added.
C3_Witness ==
    /\ IsSome(diffFwd)
    /\ \E k \in FqNames :
        /\ EntriesOf(Unwrap(snapNew).functions, k) # {}
        /\ EntriesOf(Unwrap(snapOld).functions, k) # {}
        /\ LastEntry(Unwrap(snapNew).functions, k).sig_hash
             = LastEntry(Unwrap(snapOld).functions, k).sig_hash
        /\ LastEntry(Unwrap(snapNew).functions, k).location
             # LastEntry(Unwrap(snapOld).functions, k).location
    /\ Unwrap(diffFwd).added_functions # <<>>

\* The snapshots that hold the entries of snap with each list reordered.
Reorder(s) == {[i \in DOMAIN s |-> s[p[i]]] : p \in Permutations(DOMAIN s)}
Reorderings(snap) ==
    {[functions |-> fs, exports |-> es, imports |-> is] :
        fs \in Reorder(snap.functions),
        es \in Reorder(snap.exports),
        is \in Reorder(snap.imports)}

\* C4: the diff does not depend on the order of the entries inside either
\* snapshot: reordering the function, export or import entries of the new or
\* the old snapshot leaves every list of the diff unchanged.
C4_OrderIndependent ==
    IsSome(diffFwd) =>
        \A a \in Reorderings(Unwrap(snapNew)), b \in Reorderings(Unwrap(snapOld)) :
            diff(a, b) = Unwrap(diffFwd)

SameKey(e, o) == e.exported_as = o.exported_as /\ e.source_path = o.source_path

\* C5: exports are diffed by (exported name, source path), location excluded:
\* a new export is in added_exports iff no old export has its key, an old
\* export is in removed_exports iff no new export has its key, an export whose
\* key is in both yields no entry, and the diff has no changed-export list.
C5_ExportsByKey ==
    IsSome(diffFwd) =>
        LET d == Unwrap(diffFwd)
            new == Unwrap(snapNew).exports
            old == Unwrap(snapOld).exports
        IN /\ Range(d.added_exports) \subseteq Range(new)
           /\ Range(d.removed_exports) \subseteq Range(old)
           /\ \A e \in Range(new) :
                (e \in Range(d.added_exports))
                    <=> ~(\E o \in Range(old) : SameKey(e, o))
           /\ \A o \in Range(old) :
                (o \in Range(d.removed_exports))
                    <=> ~(\E e \in Range(new) : SameKey(e, o))
           /\ DOMAIN d = {"added_functions", "removed_functions",
                          "changed_signatures", "added_exports",
                          "removed_exports", "added_imports", "removed_imports"}

\* A diff over an export that kept its key and moved, beside an added export.
C5_Witness ==
    /\ IsSome(diffFwd)
    /\ \E e \in Range(Unwrap(snapNew).exports), o \in Range(Unwrap(snapOld).exports) :
        SameKey(e, o) /\ e.location # o.location
    /\ Unwrap(diffFwd).added_exports # <<>>

(***************************************************************************)
(* Import extraction (extract.rs, extract_imports).                        *)
(*                                                                         *)
(* A string is a tuple of chunks, "::", "-" and "_" being chunks of their  *)
(* own: foo::bar is <<"foo", "::", "bar">>.  An identifier is a one-chunk  *)
(* string; the empty tuple is the empty string.                            *)
(***************************************************************************)
Str(chunk) == <<chunk>>

\* The most nodes of a use tree.
MaxNodes == 5

\* syn::UseTree
UsePath(ident, tree) == [t |-> "Path", ident |-> ident, tree |-> tree]
UseGroup(items) == [t |-> "Group", items |-> items]
UseName(ident) == [t |-> "Name", ident |-> ident]
UseGlob == [t |-> "Glob"]
UseRename(ident, rename) == [t |-> "Rename", ident |-> ident, rename |-> rename]

\* UseKind (model.rs)
KindName == [kind |-> "Name"]
KindGlob == [kind |-> "Glob"]
KindRename(alias) == [kind |-> "Rename", alias |-> alias]

PathIdents == {Str("foo"), Str("bar")}
UseLeaves ==
    {UseName(Str("bar")), UseName(Str("self")), UseGlob,
     UseRename(Str("baz"), Str("qux"))}

\* The use trees of exactly n nodes, and the sequences of use trees of n
\* nodes in all.
RECURSIVE UseTreesOfSize(_), UseTreeSeqsOfSize(_), UseTreeSeqsFrom(_, _)
UseTreesOfSize(n) ==
    IF n <= 0 THEN {}
    ELSE (IF n = 1 THEN UseLeaves ELSE {})
         \cup {UsePath(i, tr) : i \in PathIdents, tr \in UseTreesOfSize(n - 1)}
         \cup {UseGroup(s) : s \in UseTreeSeqsOfSize(n - 1)}
\* the sequences of n nodes whose first tree has at least k nodes
UseTreeSeqsFrom(n, k) ==
    IF k > n THEN {}
    ELSE {<<tr>> \o s : tr \in UseTreesOfSize(k), s \in UseTreeSeqsOfSize(n - k)}
         \cup UseTreeSeqsFrom(n, k + 1)
UseTreeSeqsOfSize(n) == IF n = 0 THEN {<<>>} ELSE UseTreeSeqsFrom(n, 1)

\* the use trees of at most max nodes
RECURSIVE UseTrees(_)
UseTrees(max) ==
    IF max < 1 THEN {} ELSE UseTreesOfSize(max) \cup UseTrees(max - 1)

\* syn::Item: a use declaration, or an inline module holding items.
ItemUse(vis_public, leading_colon, tree) ==
    [t |-> "Use", vis_public |-> vis_public, leading_colon |-> leading_colon,
     tree |-> tree]
ItemMod(ident, content) == [t |-> "Mod", ident |-> ident, content |-> content]

\* The units given to extract_imports: one use declaration, at the top of
\* the file or inside an inline module.
ImportUnits(max) ==
    {<<ItemUse(p, a, tr)>> : p \in BOOLEAN, a \in BOOLEAN, tr \in UseTrees(max)}
    \cup {<<ItemMod(Str("m"), Some(<<ItemUse(FALSE, FALSE, tr)>>))>> :
            tr \in UNION {UseTreesOfSize(n) : n \in 1..2}}
    \cup {<<ItemMod(Str("m"), None)>>}

\* [String]::join
RECURSIVE Join(_, _)
Join(segs, sep) ==
    IF segs = <<>> THEN <<>>
    ELSE IF Len(segs) = 1 THEN segs[1]
    ELSE segs[1] \o <<sep>> \o Join(Tail(segs), sep)

\* span_to_location without the span-locations feature.
span_to_location(file_path) == [path |-> file_path, line |-> None, column |-> None]

UnitPath == "src/lib.rs"

\* extract_imports::emit: the facts (none or one) pushed for a leaf.
emit_NoGuard(module_path, segs0, is_public_use, is_absolute, kind) ==
    LET root == IF segs0 = <<>> THEN <<>> ELSE Head(segs0)
        segs == IF segs0 = <<>> THEN <<>> ELSE Tail(segs0)
    IN <<[root |-> root, segments |-> segs, module_path |-> module_path,
          is_internal |-> root \in {Str("crate"), Str("self"), Str("super")},
          is_public_use |-> is_public_use, kind |-> kind,
          full_path |-> Join(segs0, "::"),
          location |-> span_to_location(UnitPath),
          origin |-> None, is_absolute |-> Some(is_absolute)]>>
emit_NeverAbsolute(module_path, segs0, is_public_use, is_absolute, kind) ==
    IF segs0 = <<>> THEN <<>>
    ELSE emit_NoGuard(module_path, segs0, is_public_use, FALSE, kind)
emit(module_path, segs0, is_public_use, is_absolute, kind) ==
    IF segs0 = <<>> THEN <<>>
    ELSE
        LET root == Head(segs0)
            segs == Tail(segs0)
            is_internal == root \in {Str("crate"), Str("self"), Str("super")}
            base == IF segs = <<>> THEN root
                    ELSE root \o <<"::">> \o Join(segs, "::")
            full_path == IF is_absolute THEN <<"::">> \o base ELSE base
        IN <<[root |-> root, segments |-> segs, module_path |-> module_path,
              is_internal |-> is_internal, is_public_use |-> is_public_use,
              kind |-> kind, full_path |-> full_path,
              location |-> span_to_location(UnitPath),
              origin |-> None, is_absolute |-> Some(is_absolute)]>>

\* The segments a UseTree::Name leaf hands to emit.
name_segs_AlwaysPush(prefix, ident) == Append(prefix, ident)
name_segs(prefix, ident) ==
    IF ident = Str("self") THEN prefix ELSE Append(prefix, ident)

\* extract_imports::walk_tree
RECURSIVE walk_tree(_, _, _, _, _)
RECURSIVE walk_group(_, _, _, _, _)
walk_tree(module_path, tree, prefix, is_public_use, is_absolute) ==
    CASE tree.t = "Path" ->
            walk_tree(module_path, tree.tree, Append(prefix, tree.ident),
                      is_public_use, is_absolute)
      [] tree.t = "Group" ->
            walk_group(module_path, tree.items, prefix, is_public_use, is_absolute)
      [] tree.t = "Name" ->
            emit(module_path, name_segs(prefix, tree.ident),
                 is_public_use, is_absolute, KindName)
      [] tree.t = "Glob" ->
            emit(module_path, Append(prefix, Str("*")),
                 is_public_use, is_absolute, KindGlob)
      [] tree.t = "Rename" ->
            emit(module_path, Append(prefix, tree.ident),
                 is_public_use, is_absolute, KindRename(tree.rename))
      [] OTHER -> <<>>
\* The loop of the Group arm: every item is walked with a clone of the prefix.
walk_group(module_path, items, prefix, is_public_use, is_absolute) ==
    IF items = <<>> THEN <<>>
    ELSE walk_tree(module_path, Head(items), prefix, is_public_use, is_absolute)
         \o walk_group(module_path, Tail(items), prefix, is_public_use, is_absolute)

\* extract_imports::walk_items
RECURSIVE import_walk_items(_, _)
import_walk_items(items, mod_stack) ==
    IF items = <<>> THEN <<>>
    ELSE
        LET item == Head(items)
            here ==
                CASE item.t = "Use" ->
                        walk_tree(mod_stack, item.tree, <<>>,
                                  item.vis_public, item.leading_colon)
                  [] item.t = "Mod" ->
                        IF IsSome(item.content)
                        THEN import_walk_items(Unwrap(item.content),
                                               Append(mod_stack, item.ident))
                        ELSE <<>>
                  [] OTHER -> <<>>
        IN here \o import_walk_items(Tail(items), mod_stack)

extract_imports(items) == import_walk_items(items, <<>>)

InitImports ==
    /\ LocatedIdle
    /\ UseSitesIdle
    /\ MergeIdle
    /\ VisitIdle
    /\ AbsImportsIdle
    /\ ExportsIdle
    /\ ParseFilesIdle
    /\ DocCovIdle
    /\ NoStdIdle
    /\ RulesIdle
    /\ ImpQueryIdle
    /\ FnQueryIdle
    /\ IndexIdle
    /\ FqIdle
    /\ DiffIdle /\ ClassifyIdle /\ SetsIdle /\ ParseIdle /\ OccIdle
    /\ impFile \in {Some(u) : u \in ImportUnits(MaxNodes)}
    /\ impOut = None

ExtractImports ==
    /\ IsSome(impFile) /\ impOut = None
    /\ impOut' = Some(extract_imports(Unwrap(impFile)))
    /\ UNCHANGED <<impFile, notImports>>

NextImports == ExtractImports

SpecImports == InitImports /\ [][NextImports]_vars

(***************************************************************************)
(* Properties of import extraction.                                        *)
(***************************************************************************)
\* The use declarations of a unit, in source order, inline modules included.
RECURSIVE UseItems(_)
UseItems(items) ==
    IF items = <<>> THEN <<>>
    ELSE (CASE Head(items).t = "Use" -> <<Head(items)>>
            [] Head(items).t = "Mod" ->
                 IF IsSome(Head(items).content)
                 THEN UseItems(Unwrap(Head(items).content)) ELSE <<>>
            [] OTHER -> <<>>)
         \o UseItems(Tail(items))

\* The leaves of a use tree in source order, each with the path segments
\* written before it.
RECURSIVE LeavesOf(_, _)
RECURSIVE LeavesOfAll(_, _)
LeavesOf(tree, before) ==
    CASE tree.t = "Path" -> LeavesOf(tree.tree, before \o <<tree.ident>>)
      [] tree.t = "Group" -> LeavesOfAll(tree.items, before)
      [] OTHER -> <<[before |-> before, leaf |-> tree]>>
LeavesOfAll(trees, before) ==
    IF trees = <<>> THEN <<>>
    ELSE LeavesOf(Head(trees), before) \o LeavesOfAll(Tail(trees), before)

RECURSIVE LeavesOfUses(_)
LeavesOfUses(uses) ==
    IF uses = <<>> THEN <<>>
    ELSE LeavesOf(Head(uses).tree, <<>>) \o LeavesOfUses(Tail(uses))

IsSelfLeaf(l) == l.leaf.t = "Name" /\ l.leaf.ident = Str("self")

\* The path the claim gives the fact of a leaf.
LeafPath(l) ==
    CASE IsSelfLeaf(l) -> l.before
      [] l.leaf.t = "Glob" -> l.before \o <<Str("*")>>
      [] OTHER -> l.before \o <<l.leaf.ident>>

LeafKind(l) ==
    CASE l.leaf.t = "Glob" -> KindGlob
      [] l.leaf.t = "Rename" -> KindRename(l.leaf.rename)
      [] OTHER -> KindName

FactPath(f) == <<f.root>> \o f.segments

\* The facts are the leaves' facts, one each, in order.
FactsMatchLeaves(facts, leaves) ==
    /\ Len(facts) = Len(leaves)
    /\ \A i \in DOMAIN facts :
        /\ i \in DOMAIN leaves
        /\ FactPath(facts[i]) = LeafPath(leaves[i])
        /\ facts[i].kind = LeafKind(leaves[i])

ScenarioD ==
    UsePath(Str("foo"),
            UseGroup(<<UseName(Str("bar")), UseRename(Str("baz"), Str("qux")), UseGlob>>))

ScenarioDFacts(facts) ==
    /\ Len(facts) = 3
    /\ facts[1].kind = KindName /\ facts[1].full_path = <<"foo", "::", "bar">>
    /\ facts[2].kind = KindRename(Str("qux"))
    /\ facts[2].full_path = <<"foo", "::", "baz">>
    /\ facts[3].kind = KindGlob /\ facts[3].full_path = <<"foo", "::", "*">>

\* C8 as claimed: every leaf of the import tree becomes exactly one
\* ImportFact, in source order, whose root and segments are the accumulated
\* prefix plus the leaf's own segment (none for a bare self leaf).
C8_EveryLeafOneFact ==
    IsSome(impOut) =>
        FactsMatchLeaves(Unwrap(impOut), LeavesOfUses(UseItems(Unwrap(impFile))))

HasPath(l) == LeafPath(l) # <<>>

\* C8 (amended): every leaf becomes exactly one ImportFact, in source order,
\* with root and segments the accumulated prefix plus the leaf's own segment
\* ("*" for a wildcard, the original name for a rename, none for a bare self
\* leaf), except a bare self leaf with no prefix before it, which yields no
\* fact; `use foo::{bar, baz as qux, *};` yields Name foo::bar, Rename
\* foo::baz as qux and Glob foo::*.
C8_LeavesFlattened ==
    IsSome(impOut) =>
        /\ FactsMatchLeaves(Unwrap(impOut),
               SelectSeq(LeavesOfUses(UseItems(Unwrap(impFile))), HasPath))
        /\ Unwrap(impFile) = <<ItemUse(FALSE, FALSE, ScenarioD)>>
              => ScenarioDFacts(Unwrap(impOut))

\* `use foo::{self, bar::*};` extracted: a nested tree with a self leaf.
C8_Witness ==
    /\ IsSome(impOut)
    /\ Unwrap(impFile) =
         <<ItemUse(FALSE, FALSE,
              UsePath(Str("foo"),
                  UseGroup(<<UseName(Str("self")), UsePath(Str("bar"), UseGlob)>>)))>>
    /\ Len(Unwrap(impOut)) = 2

\* A use declaration of single segments only, with no `::` in it: `use foo;`,
\* `use foo as bar;`, also written in braces.
RECURSIVE NoPathNode(_)
NoPathNode(tree) ==
    CASE tree.t = "Path" -> FALSE
      [] tree.t = "Group" -> \A i \in DOMAIN tree.items : NoPathNode(tree.items[i])
      [] OTHER -> TRUE
BareSingleSegment(use) == NoPathNode(use.tree)

\* C9 as claimed: every ImportFact has a non-empty root, and its segments
\* are empty only when the declaration is a bare single-segment import.
C9_SegmentsEmptyOnlyIfBare ==
    IsSome(impOut) =>
        \A i \in DOMAIN Unwrap(impOut) :
            /\ Unwrap(impOut)[i].root # <<>>
            /\ Unwrap(impOut)[i].segments = <<>> =>
                \A u \in Range(UseItems(Unwrap(impFile))) : BareSingleSegment(u)

\* C9 (amended): every ImportFact has a non-empty root, and its segments are
\* empty exactly when its leaf is a single segment with nothing before it, or
\* a bare self leaf behind exactly one segment (`use foo::{self};`).
C9_RootNonEmpty ==
    IsSome(impOut) =>
        LET facts == Unwrap(impOut)
            leaves == SelectSeq(LeavesOfUses(UseItems(Unwrap(impFile))), HasPath)
        IN /\ Len(facts) = Len(leaves)
           /\ \A i \in DOMAIN facts :
                /\ facts[i].root # <<>>
                /\ i \in DOMAIN leaves
                /\ facts[i].segments = <<>> <=>
                    \/ leaves[i].before = <<>> /\ ~IsSelfLeaf(leaves[i])
                    \/ Len(leaves[i].before) = 1 /\ IsSelfLeaf(leaves[i])

\* `use foo::{self, bar};` extracted: the self leaf's fact has no segments.
C9_Witness ==
    /\ IsSome(impOut)
    /\ Unwrap(impFile) =
         <<ItemUse(FALSE, FALSE,
              UsePath(Str("foo"), UseGroup(<<UseName(Str("self")), UseName(Str("bar"))>>)))>>
    /\ Unwrap(impOut)[1].segments = <<>>
    /\ Unwrap(impOut)[2].segments # <<>>

(***************************************************************************)
(* The import-origin classifier (klepto.rs, classify_imports).             *)
(***************************************************************************)
\* The longest list given to classify_imports.
MaxClsImports == 2

\* The longest list of parsed units of one parse().
MaxFiles == 2

\* norm_crate_root: every '-' of the string becomes '_'.
norm_crate_root_Identity(s) == s
norm_crate_root(s) == [i \in DOMAIN s |-> IF s[i] = "-" THEN "_" ELSE s[i]]

\* ImportOrigin (model.rs)
ImportOrigins ==
    {"Internal", "Std", "Core", "Alloc", "WorkspaceMember", "Dependency",
     "UnknownExternal"}

\* The origin classify_imports computes for one StolenPath.
classify_origin(imp, ws, deps) ==
    LET root == norm_crate_root(imp.root)
    IN IF imp.is_internal THEN "Internal"
       ELSE CASE root = Str("std") -> "Std"
              [] root = Str("core") -> "Core"
              [] root = Str("alloc") -> "Alloc"
              [] root \in ws -> "WorkspaceMember"
              [] root \in deps -> "Dependency"
              [] OTHER -> "UnknownExternal"

\* classify_imports: the loop assigns every element its origin.
classify_imports(imps, ws, deps) ==
    [i \in DOMAIN imps |->
        [imps[i] EXCEPT !.origin = Some(classify_origin(imps[i], ws, deps))]]

\* The roots of the classified imports; my-lib is written with a hyphen.
ClsRoots ==
    {Str("crate"), Str("self"), Str("super"), Str("std"), Str("core"),
     Str("alloc"), Str("serde"), <<"my", "-", "lib">>, <<"my", "_", "lib">>,
     Str("other")}

\* The names scan_workspace_root may have inserted (already normalized).
PackageNames == {Str("serde"), <<"my", "_", "lib">>, Str("core")}

\* The StolenPath emit pushes for `use <root>::Item;`.
ImportOfRoot(root) == emit(<<>>, <<root, Str("Item")>>, FALSE, FALSE, KindName)[1]

InitClassify ==
    /\ LocatedIdle
    /\ UseSitesIdle
    /\ MergeIdle
    /\ VisitIdle
    /\ AbsImportsIdle
    /\ ExportsIdle
    /\ ParseFilesIdle
    /\ DocCovIdle
    /\ NoStdIdle
    /\ RulesIdle
    /\ ImpQueryIdle
    /\ FnQueryIdle
    /\ IndexIdle
    /\ FqIdle
    /\ DiffIdle /\ ImportsIdle /\ ParseIdle /\ OccIdle
    /\ clsImports \in BoundedSeq({ImportOfRoot(r) : r \in ClsRoots}, MaxClsImports)
    /\ clsDone = FALSE
    /\ workspace_members \in SUBSET PackageNames
    /\ dependency_crates \in SUBSET PackageNames

Classify ==
    /\ ~clsDone
    /\ clsImports' = classify_imports(clsImports, workspace_members, dependency_crates)
    /\ clsDone' = TRUE
    /\ UNCHANGED <<setVars, notClassify>>

NextClassify == Classify

SpecClassify == InitClassify /\ [][NextClassify]_vars

\* The claim's normalization of a root: hyphens read as underscores.
HyphensAsUnderscores(s) == [i \in DOMAIN s |-> IF s[i] = "-" THEN "_" ELSE s[i]]

\* The origin the claim gives a root, by the first matching case.
ClaimedOrigin(root, ws, deps) ==
    LET n == HyphensAsUnderscores(root)
    IN IF root \in {Str("crate"), Str("self"), Str("super")} THEN "Internal"
       ELSE IF n = Str("std") THEN "Std"
       ELSE IF n = Str("core") THEN "Core"
       ELSE IF n = Str("alloc") THEN "Alloc"
       ELSE IF n \in ws THEN "WorkspaceMember"
       ELSE IF n \in deps THEN "Dependency"
       ELSE "UnknownExternal"

\* C6: classify_imports gives every ImportFact exactly one origin, by the
\* first matching case of: Internal (root crate/self/super), Std/Core/Alloc
\* (normalized root), WorkspaceMember, Dependency, UnknownExternal; so the
\* origin is Internal iff is_internal, and a root in both name sets is a
\* WorkspaceMember.  Nothing else of a fact changes.
C6_OriginByFirstMatch ==
    clsDone =>
        \A i \in DOMAIN clsImports :
            LET imp == clsImports[i]
            IN /\ imp.origin
                    = Some(ClaimedOrigin(imp.root, workspace_members, dependency_crates))
               /\ Unwrap(imp.origin) \in ImportOrigins
               /\ (Unwrap(imp.origin) = "Internal") <=> imp.is_internal
               /\ [imp EXCEPT !.origin = None] = ImportOfRoot(imp.root)

\* Classified: my-lib with my_lib in both name sets, beside an internal root.
C6_Witness ==
    /\ clsDone
    /\ <<"my", "_", "lib">> \in workspace_members \cap dependency_crates
    /\ Len(clsImports) = 2
    /\ clsImports[1].root = <<"my", "-", "lib">>
    /\ clsImports[1].origin = Some("WorkspaceMember")
    /\ clsImports[2].root = Str("crate")
    /\ clsImports[2].origin = Some("Internal")

(***************************************************************************)
(* KleptoBuilder::parse (klepto.rs), from the parsed files on: the         *)
(* classifier call, the extraction loop over the files, and the return of  *)
(* the Klepto value.                                                       *)
(***************************************************************************)
\* `use std::sync::Arc;`, `pub use crate::a;`, `use serde::{Serialize, self};`
\* and a unit without imports.
ParseUnits ==
    {<<ItemUse(FALSE, FALSE,
          UsePath(Str("std"), UsePath(Str("sync"), UseName(Str("Arc")))))>>,
     <<ItemUse(TRUE, FALSE, UsePath(Str("crate"), UseName(Str("a"))))>>,
     <<ItemUse(FALSE, FALSE,
          UsePath(Str("serde"),
              UseGroup(<<UseName(Str("Serialize")), UseName(Str("self"))>>)))>>,
     <<>>}

InitParse ==
    /\ LocatedIdle
    /\ UseSitesIdle
    /\ MergeIdle
    /\ VisitIdle
    /\ AbsImportsIdle
    /\ ExportsIdle
    /\ ParseFilesIdle
    /\ DocCovIdle
    /\ NoStdIdle
    /\ RulesIdle
    /\ ImpQueryIdle
    /\ FnQueryIdle
    /\ IndexIdle
    /\ FqIdle
    /\ DiffIdle /\ ImportsIdle /\ ClassifyIdle /\ OccIdle
    /\ workspace_members \in SUBSET PackageNames
    /\ dependency_crates \in SUBSET PackageNames
    /\ files \in BoundedSeq(ParseUnits, MaxFiles)
    /\ parsePc = "classify"
    /\ parseNext = 0
    /\ imports = <<>>

\* klepto.rs:318-336: the fact vectors are created and classify_imports runs
\* over `imports`.
ParseClassify ==
    /\ parsePc = "classify"
    /\ imports' = classify_imports(imports, workspace_members, dependency_crates)
    /\ parsePc' = "extract"
    /\ parseNext' = 1
    /\ UNCHANGED <<files, setVars, notParse>>

\* klepto.rs:349-362: one iteration of `for pf in &files`.
ParseExtractFile ==
    /\ parsePc = "extract"
    /\ parseNext <= Len(files)
    /\ imports' = imports \o extract_imports(files[parseNext])
    /\ parseNext' = parseNext + 1
    /\ UNCHANGED <<files, parsePc, setVars, notParse>>

\* klepto.rs:364-381: after the loop the index is built and Ok(Klepto) returned.
ParseReturn ==
    /\ parsePc = "extract"
    /\ parseNext > Len(files)
    /\ parsePc' = "done"
    /\ UNCHANGED <<files, parseNext, imports, setVars, notParse>>

NextParse == ParseClassify \/ ParseExtractFile \/ ParseReturn

SpecParse == InitParse /\ [][NextParse]_vars

\* C7: in the Klepto value a successful parse returns, every ImportFact has
\* its origin assigned: the classifier has run over the merged imports of
\* all units.
C7_OriginsAssigned ==
    parsePc = "done" => \A i \in DOMAIN imports : IsSome(imports[i].origin)

(***************************************************************************)
(* Occurrence extraction: extract_occurrences (extract.rs:763-1078).       *)
(*                                                                         *)
(* A unit is a sequence of syntax nodes.  Every node is a record tagged by *)
(* t; a block is the sequence of its statements, each an item or an        *)
(* expression.  A syn::Path is the sequence of its segments' idents.       *)
(***************************************************************************)
MaxAstNodes == 3

\* syn::Visibility
VisPublic == [vis |-> "Public"]
VisInherited == [vis |-> "Inherited"]
VisRestricted(path) == [vis |-> "Restricted", path |-> path]

\* syn::Expr
ExprMacro(path) == [t |-> "ExprMacro", path |-> path]
ExprPath(path) == [t |-> "ExprPath", path |-> path]
ExprCall(func) == [t |-> "ExprCall", func |-> func]
ExprMethodCall(receiver, method) ==
    [t |-> "ExprMethodCall", receiver |-> receiver, method |-> method]

\* syn::Item and the items of impl and trait blocks
ItemFn(vis, ident, block) ==
    [t |-> "Fn", vis |-> vis, ident |-> ident, block |-> block]
ItemTrait(ident, items) == [t |-> "Trait", ident |-> ident, items |-> items]
ItemImpl(self_ty, trait_, items) ==
    [t |-> "Impl", self_ty |-> self_ty, trait_ |-> trait_, items |-> items]
ImplItemFn(vis, ident, block) ==
    [t |-> "ImplFn", vis |-> vis, ident |-> ident, block |-> block]
TraitItemFn(ident, default) ==
    [t |-> "TraitFn", ident |-> ident, default |-> default]
ItemConst(expr) == [t |-> "Const", expr |-> expr]
ItemMacro(path) == [t |-> "ItemMacro", path |-> path]

\* The expressions of the units: panic!(..) in expression position,
\* std::process::exit(), x.unwrap().
OccExprs ==
    {ExprMacro(<<Str("panic")>>),
     ExprCall(ExprPath(<<Str("std"), Str("process"), Str("exit")>>)),
     ExprMethodCall(ExprPath(<<Str("x")>>), Str("unwrap"))}

\* What a function item is declared with: pub fn f, fn g, pub(crate) fn h.
FnHeads ==
    {<<VisPublic, Str("f")>>, <<VisInherited, Str("g")>>,
     <<VisRestricted(<<Str("crate")>>), Str("h")>>}
\* impl S { .. } and impl T for S { .. }
ImplHeads == {<<<<Str("S")>>, None>>, <<<<Str("S")>>, Some(<<Str("T")>>)>>}
\* pub fn new and fn run inside an impl block
ImplFnHeads == {<<VisPublic, Str("new")>>, <<VisInherited, Str("run")>>}

\* OccStmts(n): the statements made of exactly n nodes; OccBlocks(n): the
\* statement sequences of n nodes in all; likewise the items of impl and
\* trait blocks.
IsItem(s) == s.t \notin {"ExprMacro", "ExprPath", "ExprCall", "ExprMethodCall"}
OnlyItems(b) == \A i \in DOMAIN b : IsItem(b[i])

RECURSIVE OccStmts(_), OccBlocks(_), OccImplItems(_), OccTraitItems(_)
RECURSIVE OccBlocksFrom(_, _), OccImplItemsFrom(_, _), OccTraitItemsFrom(_, _)
OccStmts(n) ==
    IF n < 1 THEN {}
    ELSE (IF n = 1 THEN OccExprs \cup {ItemMacro(<<Str("thread_local")>>)} ELSE {})
         \cup (IF n = 2 THEN {ItemConst(e) : e \in OccExprs} ELSE {})
         \cup {ItemFn(h[1], h[2], b) : h \in FnHeads, b \in OccBlocks(n - 1)}
         \cup {ItemMod(Str("m"), Some(b)) : b \in {c \in OccBlocks(n - 1) : OnlyItems(c)}}
         \cup {ItemTrait(Str("T"), b) : b \in OccTraitItems(n - 1)}
         \cup {ItemImpl(h[1], h[2], b) : h \in ImplHeads, b \in OccImplItems(n - 1)}
\* the sequences of n nodes whose first element has at least k nodes
OccBlocksFrom(n, k) ==
    IF k > n THEN {}
    ELSE {<<s>> \o rest : s \in OccStmts(k), rest \in OccBlocks(n - k)}
         \cup OccBlocksFrom(n, k + 1)
OccBlocks(n) == IF n = 0 THEN {<<>>} ELSE OccBlocksFrom(n, 1)
OccImplItemsFrom(n, k) ==
    IF k > n THEN {}
    ELSE {<<ImplItemFn(h[1], h[2], b)>> \o rest :
            h \in ImplFnHeads, b \in OccBlocks(k - 1), rest \in OccImplItems(n - k)}
         \cup OccImplItemsFrom(n, k + 1)
OccImplItems(n) == IF n = 0 THEN {<<>>} ELSE OccImplItemsFrom(n, 1)
OccTraitItemsFrom(n, k) ==
    IF k > n THEN {}
    ELSE {<<TraitItemFn(Str("m"), d)>> \o rest :
            d \in {Some(b) : b \in OccBlocks(k - 1)}
                  \cup (IF k = 1 THEN {None} ELSE {}),
            rest \in OccTraitItems(n - k)}
         \cup OccTraitItemsFrom(n, k + 1)
OccTraitItems(n) == IF n = 0 THEN {<<>>} ELSE OccTraitItemsFrom(n, 1)

\* The units given to extract_occurrences, of at most max nodes.  A
\* statement that is an item can stand at the top of a file; an expression
\* cannot.
RECURSIVE OccUnits(_)
OccUnits(max) ==
    {u \in OccBlocks(max) : OnlyItems(u)}
    \cup (IF max = 0 THEN {} ELSE OccUnits(max - 1))

CrateName == Str("mycrate")

\* FnKind (model.rs)
FreeFn == [kind |-> "FreeFn"]
TraitMethod(trait_name) == [kind |-> "TraitMethod", trait_name |-> trait_name]
ImplMethod(self_ty, trait_ty) ==
    [kind |-> "ImplMethod", self_ty |-> self_ty, trait_ty |-> trait_ty]

\* V::default() with crate_name set (extract.rs:1072-1074)
V_default ==
    [crate_name |-> CrateName, mod_stack |-> <<>>,
     impl_self_ty |-> None, impl_trait_ty |-> None, in_trait |-> None,
     current_fn |-> None, current_fn_is_public |-> None,
     macros_inv |-> <<>>, paths |-> <<>>, calls |-> <<>>]

vis_is_public(vis) == vis.vis = "Public"

path_to_string(p) == Join(p, "::")

\* ToTokens::to_token_stream().to_string() of an expression: the tokens
\* separated by single spaces.
RECURSIVE to_token_string(_)
to_token_string(e) ==
    CASE e.t = "ExprPath" -> Join(e.path, " :: ")
      [] e.t = "ExprMacro" -> Join(e.path, " :: ") \o <<" ", "!", " ", "(", ")">>
      [] e.t = "ExprCall" -> to_token_string(e.func) \o <<" ", "(", ")">>
      [] e.t = "ExprMethodCall" ->
            to_token_string(e.receiver) \o <<" ", ".", " ">> \o e.method
            \o <<" ", "(", ")">>

\* extract.rs:814-830
fq_name(crate_name, module_path, kind, name) ==
    LET parts == <<crate_name>> \o module_path
                 \o (CASE kind.kind = "FreeFn" -> <<name>>
                       [] kind.kind = "TraitMethod" -> <<kind.trait_name, name>>
                       [] kind.kind = "ImplMethod" -> <<kind.self_ty, name>>)
    IN Join(parts, "::")

\* extract.rs:888-892: the enclosing-function context is replaced on
\* entering a function; extract.rs:897-898: and put back on leaving it.
enter_fn(v, fq, is_pub) ==
    [v EXCEPT !.current_fn = Some(fq), !.current_fn_is_public = Some(is_pub)]
leave_fn_KeepInner(v, prev_fn, prev_pub) == v
leave_fn(v, prev_fn, prev_pub) ==
    [v EXCEPT !.current_fn = prev_fn, !.current_fn_is_public = prev_pub]

\* extract.rs:1020-1046
visit_path(v, p) ==
    LET s == path_to_string(p)
        keep == \/ \E i \in DOMAIN s : s[i] = "::"
                \/ s \in {Str("std"), Str("core"), Str("alloc"),
                          Str("crate"), Str("self"), Str("super")}
    IN IF keep
       THEN [v EXCEPT !.paths = Append(@,
                [path |-> s, module_path |-> v.mod_stack,
                 location |-> span_to_location(UnitPath),
                 enclosing_fn |-> v.current_fn,
                 enclosing_public |-> v.current_fn_is_public])]
       ELSE v

\* MacroInvocation pushed by visit_item_macro (extract.rs:955-983) and by
\* visit_expr_macro (extract.rs:989-1016)
push_macro_inv(v, path) ==
    [v EXCEPT !.macros_inv = Append(@,
        [name |-> IF path = <<>> THEN Str("<macro>") ELSE path[Len(path)],
         module_path |-> v.mod_stack,
         path |-> IF path = <<>> THEN None ELSE Some(Join(path, "::")),
         location |-> span_to_location(UnitPath),
         enclosing_fn |-> v.current_fn,
         enclosing_public |-> v.current_fn_is_public])]

\* syn::visit::visit_visibility: a restricted visibility holds a path
visit_visibility(v, vis) ==
    IF vis.vis = "Restricted" THEN visit_path(v, vis.path) ELSE v

RECURSIVE visit_node(_, _), visit_all(_, _)
RECURSIVE visit_item_mod(_, _), visit_item_trait(_, _), visit_item_impl(_, _)
RECURSIVE visit_item_fn(_, _), visit_impl_item_fn(_, _), visit_trait_item_fn(_, _)
RECURSIVE visit_expr_call(_, _), visit_expr_method_call(_, _)

\* extract.rs:833-841
visit_item_mod_NoPop(v, i) ==
    IF IsSome(i.content)
    THEN visit_all([v EXCEPT !.mod_stack = Append(@, i.ident)], Unwrap(i.content))
    ELSE v
visit_item_mod(v, i) ==
    IF IsSome(i.content)
    THEN LET pushed == [v EXCEPT !.mod_stack = Append(@, i.ident)]
             walked == visit_all(pushed, Unwrap(i.content))
         IN [walked EXCEPT !.mod_stack = SubSeq(@, 1, Len(@) - 1)]
    ELSE v

\* extract.rs:843-848
visit_item_trait(v, i) ==
    LET prev == v.in_trait
        walked == visit_all([v EXCEPT !.in_trait = Some(i.ident)], i.items)
    IN [walked EXCEPT !.in_trait = prev]

\* extract.rs:850-871; syn::visit::visit_item_impl visits the trait path,
\* the self type and then the items.
visit_item_impl(v, i) ==
    LET prev_self == v.impl_self_ty
        prev_trait == v.impl_trait_ty
        self_ty == i.self_ty[Len(i.self_ty)]
        set == [v EXCEPT !.impl_self_ty = Some(self_ty),
                         !.impl_trait_ty =
                            IF IsSome(i.trait_)
                            THEN Some(path_to_string(Unwrap(i.trait_)))
                            ELSE None]
        after_trait == IF IsSome(i.trait_) THEN visit_path(set, Unwrap(i.trait_))
                       ELSE set
        after_ty == visit_path(after_trait, i.self_ty)
        walked == visit_all(after_ty, i.items)
    IN [walked EXCEPT !.impl_self_ty = prev_self, !.impl_trait_ty = prev_trait]

\* extract.rs:873-899; syn::visit::visit_item_fn visits the visibility and
\* then the block.
visit_item_fn(v, i) ==
    LET kind == IF IsSome(v.in_trait) THEN TraitMethod(Unwrap(v.in_trait))
                ELSE FreeFn
        is_pub == IF IsSome(v.in_trait) THEN TRUE ELSE vis_is_public(i.vis)
        fq == fq_name(v.crate_name, v.mod_stack, kind, i.ident)
        prev_fn == v.current_fn
        prev_pub == v.current_fn_is_public
        inside == visit_visibility(enter_fn(v, fq, is_pub), i.vis)
        walked == visit_all(inside, i.block)
    IN leave_fn(walked, prev_fn, prev_pub)

\* extract.rs:901-921
visit_impl_item_fn(v, i) ==
    LET self_ty == IF IsSome(v.impl_self_ty) THEN Unwrap(v.impl_self_ty)
                   ELSE Str("<impl>")
        kind == ImplMethod(self_ty, v.impl_trait_ty)
        fq == fq_name(v.crate_name, v.mod_stack, kind, i.ident)
        is_pub == vis_is_public(i.vis)
        prev_fn == v.current_fn
        prev_pub == v.current_fn_is_public
        inside == visit_visibility(enter_fn(v, fq, is_pub), i.vis)
        walked == visit_all(inside, i.block)
    IN leave_fn(walked, prev_fn, prev_pub)

\* extract.rs:923-940
visit_trait_item_fn(v, i) ==
    LET tr == IF IsSome(v.in_trait) THEN Unwrap(v.in_trait) ELSE Str("<trait>")
        fq == fq_name(v.crate_name, v.mod_stack, TraitMethod(tr), i.ident)
        prev_fn == v.current_fn
        prev_pub == v.current_fn_is_public
        inside == enter_fn(v, fq, TRUE)
        walked == IF IsSome(i.default) THEN visit_all(inside, Unwrap(i.default))
                  ELSE inside
    IN leave_fn(walked, prev_fn, prev_pub)

\* extract.rs:942-986, for a macro other than macro_rules
visit_item_macro(v, i) == visit_path(push_macro_inv(v, i.path), i.path)

\* extract.rs:988-1018
visit_expr_macro(v, i) == visit_path(push_macro_inv(v, i.path), i.path)

\* extract.rs:1048-1057
visit_expr_method_call(v, m) ==
    LET pushed == [v EXCEPT !.calls = Append(@,
                    [callee |-> m.method, module_path |-> v.mod_stack,
                     location |-> span_to_location(UnitPath),
                     enclosing_fn |-> v.current_fn,
                     enclosing_public |-> v.current_fn_is_public])]
    IN visit_node(pushed, m.receiver)

\* extract.rs:1059-1069
visit_expr_call(v, c) ==
    LET pushed == [v EXCEPT !.calls = Append(@,
                    [callee |-> to_token_string(c.func),
                     module_path |-> v.mod_stack,
                     location |-> span_to_location(UnitPath),
                     enclosing_fn |-> v.current_fn,
                     enclosing_public |-> v.current_fn_is_public])]
    IN visit_node(pushed, c.func)

\* syn::visit's dispatch on the kind of the node
visit_node(v, n) ==
    CASE n.t = "Mod" -> visit_item_mod(v, n)
      [] n.t = "Trait" -> visit_item_trait(v, n)
      [] n.t = "Impl" -> visit_item_impl(v, n)
      [] n.t = "Fn" -> visit_item_fn(v, n)
      [] n.t = "ImplFn" -> visit_impl_item_fn(v, n)
      [] n.t = "TraitFn" -> visit_trait_item_fn(v, n)
      [] n.t = "Const" -> visit_node(v, n.expr)
      [] n.t = "ItemMacro" -> visit_item_macro(v, n)
      [] n.t = "ExprMacro" -> visit_expr_macro(v, n)
      [] n.t = "ExprPath" -> visit_path(v, n.path)
      [] n.t = "ExprCall" -> visit_expr_call(v, n)
      [] n.t = "ExprMethodCall" -> visit_expr_method_call(v, n)

\* the nodes of a sequence are visited in source order
visit_all(v, nodes) ==
    IF nodes = <<>> THEN v
    ELSE visit_all(visit_node(v, Head(nodes)), Tail(nodes))

\* extract.rs:1072-1077 (the macro definitions are left out)
extract_occurrences(items) ==
    LET v == visit_all(V_default, items)
    IN [macros_inv |-> v.macros_inv, paths |-> v.paths, calls |-> v.calls]

InitOcc ==
    /\ LocatedIdle
    /\ UseSitesIdle
    /\ MergeIdle
    /\ VisitIdle
    /\ AbsImportsIdle
    /\ ExportsIdle
    /\ ParseFilesIdle
    /\ DocCovIdle
    /\ NoStdIdle
    /\ RulesIdle
    /\ ImpQueryIdle
    /\ FnQueryIdle
    /\ IndexIdle
    /\ FqIdle
    /\ DiffIdle /\ ImportsIdle /\ ClassifyIdle /\ SetsIdle /\ ParseIdle
    /\ fnOut = None /\ idxOut = None
    /\ occFile \in {Some(u) : u \in OccUnits(MaxAstNodes)}
    /\ occOut = None

ExtractOccurrences ==
    /\ IsSome(occFile) /\ occOut = None
    /\ occOut' = Some(extract_occurrences(Unwrap(occFile)))
    /\ UNCHANGED <<occFile, notOcc>>

NextOcc == ExtractOccurrences

SpecOcc == InitOcc /\ [][NextOcc]_vars

(***************************************************************************)
(* Claims about extract_occurrences.                                       *)
(*                                                                         *)
(* The annotations the facts should carry are computed from the nesting of *)
(* the syntax tree alone: a scope is handed down to the children of a      *)
(* node, and nothing is handed back up.                                    *)
(***************************************************************************)
TopScope ==
    [mods |-> <<>>, trait |-> None, self_ty |-> None, fn |-> None, pub |-> None]

\* The scope inside a function-like node n met in scope sc: its fq name and
\* its visibility as the extractor computes them for its kind.
FnScope(sc, n) ==
    LET kind == CASE n.t = "TraitFn" ->
                        TraitMethod(IF IsSome(sc.trait) THEN Unwrap(sc.trait)
                                    ELSE Str("<trait>"))
                  [] n.t = "ImplFn" ->
                        ImplMethod(IF IsSome(sc.self_ty) THEN Unwrap(sc.self_ty)
                                   ELSE Str("<impl>"), None)
                  [] n.t = "Fn" ->
                        IF IsSome(sc.trait) THEN TraitMethod(Unwrap(sc.trait))
                        ELSE FreeFn
        is_pub == IF kind.kind = "TraitMethod" THEN TRUE ELSE n.vis.vis = "Public"
    IN [sc EXCEPT !.fn = Some(fq_name(CrateName, sc.mods, kind, n.ident)),
                  !.pub = Some(is_pub)]

\* One expected fact: its vector and the annotation of the scope it is in.
Annotated(vec, sc) == [vec |-> vec, enclosing_fn |-> sc.fn, enclosing_public |-> sc.pub]

\* A path is recorded when it has several segments or is a well-known root.
PathRecorded(p) ==
    \/ Len(p) > 1
    \/ p \in {<<Str("std")>>, <<Str("core")>>, <<Str("alloc")>>,
              <<Str("crate")>>, <<Str("self")>>, <<Str("super")>>}
PathIn(p, sc) == IF PathRecorded(p) THEN <<Annotated("paths", sc)>> ELSE <<>>

RECURSIVE ExpectedIn(_, _), ExpectedAll(_, _)
ExpectedIn(n, sc) ==
    CASE n.t = "Mod" ->
            IF IsSome(n.content)
            THEN ExpectedAll(Unwrap(n.content), [sc EXCEPT !.mods = Append(@, n.ident)])
            ELSE <<>>
      [] n.t = "Trait" -> ExpectedAll(n.items, [sc EXCEPT !.trait = Some(n.ident)])
      [] n.t = "Impl" ->
            (IF IsSome(n.trait_) THEN PathIn(Unwrap(n.trait_), sc) ELSE <<>>)
            \o PathIn(n.self_ty, sc)
            \o ExpectedAll(n.items,
                   [sc EXCEPT !.self_ty = Some(n.self_ty[Len(n.self_ty)])])
      [] n.t \in {"Fn", "ImplFn"} ->
            (IF n.vis.vis = "Restricted" THEN PathIn(n.vis.path, FnScope(sc, n))
             ELSE <<>>)
            \o ExpectedAll(n.block, FnScope(sc, n))
      [] n.t = "TraitFn" ->
            IF IsSome(n.default) THEN ExpectedAll(Unwrap(n.default), FnScope(sc, n))
            ELSE <<>>
      [] n.t = "Const" -> ExpectedIn(n.expr, sc)
      [] n.t \in {"ItemMacro", "ExprMacro"} ->
            <<Annotated("macros_inv", sc)>> \o PathIn(n.path, sc)
      [] n.t = "ExprPath" -> PathIn(n.path, sc)
      [] n.t = "ExprCall" -> <<Annotated("calls", sc)>> \o ExpectedIn(n.func, sc)
      [] n.t = "ExprMethodCall" ->
            <<Annotated("calls", sc)>> \o ExpectedIn(n.receiver, sc)
ExpectedAll(nodes, sc) ==
    IF nodes = <<>> THEN <<>>
    ELSE ExpectedIn(Head(nodes), sc) \o ExpectedAll(Tail(nodes), sc)

\* The annotations of the recorded facts of one vector, in recorded order.
AnnotationsOf(facts, vec) ==
    [i \in DOMAIN facts |-> Annotated(vec, [fn |-> facts[i].enclosing_fn,
                                            pub |-> facts[i].enclosing_public])]
ExpectedOf(items, vec) ==
    SelectSeq(ExpectedAll(items, TopScope), LAMBDA a : a.vec = vec)

\* C10: every macro-invocation, path and call fact that extract_occurrences
\* records carries the fq name and the computed visibility of the innermost
\* function-like item around it, and None for both when no function is
\* around it; a fact recorded after a nested function has been left
\* carries the annotation of the function around that nested function.
C10_AnnotationsFollowNesting ==
    IsSome(occOut) =>
        \A vec \in {"macros_inv", "paths", "calls"} :
            AnnotationsOf(Unwrap(occOut)[vec], vec) = ExpectedOf(Unwrap(occFile), vec)

\* `pub fn f() { fn g() {} x.unwrap() }` was extracted: the call, recorded
\* after g was left, is annotated with f and public.
C10_Witness ==
    /\ occFile = Some(<<ItemFn(VisPublic, Str("f"),
                          <<ItemFn(VisInherited, Str("g"), <<>>),
                            ExprMethodCall(ExprPath(<<Str("x")>>), Str("unwrap"))>>)>>)
    /\ IsSome(occOut)
    /\ Len(Unwrap(occOut).calls) = 1
    /\ Unwrap(occOut).calls[1].enclosing_fn = Some(<<"mycrate", "::", "f">>)
    /\ Unwrap(occOut).calls[1].enclosing_public = Some(TRUE)

(***************************************************************************)
(* Function extraction: extract_functions (extract.rs:505-639), and the    *)
(* span index: EnclosingIndex::build (index.rs:37-55, 138-245), over the   *)
(* same units as extract_occurrences.                                      *)
(***************************************************************************)
\* The units declare no attributes, so no item carries a doc comment.
AttrsOf(item) == <<>>

\* extract.rs:27-29
extract_vis_is_public(vis) == vis.vis = "Public"

\* extract.rs:31-33: some attribute's path is the ident `doc`
has_docs(attrs) == \E i \in DOMAIN attrs : attrs[i] = <<Str("doc")>>

\* extract.rs:75-91
extract_fq_name(crate_name, module_path, kind, name) ==
    LET parts == <<crate_name>> \o module_path
                 \o (CASE kind.kind = "FreeFn" -> <<name>>
                       [] kind.kind = "TraitMethod" -> <<kind.trait_name, name>>
                       [] kind.kind = "ImplMethod" -> <<kind.self_ty, name>>)
    IN Join(parts, "::")

\* CapturedFn as the extractor fills it (extract.rs:527-546)
CapturedFnOf(name, fq, is_public, attrs, kind, mod_stack) ==
    [name |-> name, fq_name |-> fq, is_public |-> is_public,
     has_docs |-> has_docs(attrs), kind |-> kind, module_path |-> mod_stack,
     location |-> span_to_location(UnitPath)]

\* extract.rs:560-590: the methods of one impl block
RECURSIVE impl_methods(_, _, _, _)
impl_methods(items, self_ty, trait_ty, mod_stack) ==
    IF items = <<>> THEN <<>>
    ELSE LET m == Head(items)
             kind == ImplMethod(self_ty, trait_ty)
             fq == extract_fq_name(CrateName, mod_stack, kind, m.ident)
         IN (IF m.t = "ImplFn"
             THEN <<CapturedFnOf(m.ident, fq, extract_vis_is_public(m.vis),
                                 AttrsOf(m), kind, mod_stack)>>
             ELSE <<>>)
            \o impl_methods(Tail(items), self_ty, trait_ty, mod_stack)

\* extract.rs:594-623: the methods of one trait definition
RECURSIVE trait_methods(_, _, _)
trait_methods(items, trait_name, mod_stack) ==
    IF items = <<>> THEN <<>>
    ELSE LET tf == Head(items)
             kind == TraitMethod(trait_name)
             fq == extract_fq_name(CrateName, mod_stack, kind, tf.ident)
         IN (IF tf.t = "TraitFn"
             THEN <<CapturedFnOf(tf.ident, fq, TRUE, AttrsOf(tf), kind, mod_stack)>>
             ELSE <<>>)
            \o trait_methods(Tail(items), trait_name, mod_stack)

\* extract.rs:513-635
RECURSIVE functions_walk_items(_, _)
functions_walk_items(items, mod_stack) ==
    IF items = <<>> THEN <<>>
    ELSE LET item == Head(items)
             here ==
               CASE item.t = "Fn" ->
                        <<CapturedFnOf(item.ident,
                              extract_fq_name(CrateName, mod_stack, FreeFn, item.ident),
                              extract_vis_is_public(item.vis), AttrsOf(item),
                              FreeFn, mod_stack)>>
                 [] item.t = "Impl" ->
                        impl_methods(item.items, item.self_ty[Len(item.self_ty)],
                            IF IsSome(item.trait_)
                            THEN Some(Join(Unwrap(item.trait_), "::")) ELSE None,
                            mod_stack)
                 [] item.t = "Trait" -> trait_methods(item.items, item.ident, mod_stack)
                 [] item.t = "Mod" ->
                        IF IsSome(item.content)
                        THEN functions_walk_items(Unwrap(item.content),
                                                  Append(mod_stack, item.ident))
                        ELSE <<>>
                 [] OTHER -> <<>>
         IN here \o functions_walk_items(Tail(items), mod_stack)

\* extract.rs:505-639
extract_functions(items) == functions_walk_items(items, <<>>)

\* index.rs:89-101, without the span-locations feature
span_start_end == [start |-> None, end |-> None]

\* index.rs:103-105
index_vis_is_public(vis) == vis.vis = "Public"

\* index.rs:120-136
index_fq_name(crate_name, module_path, kind, name) ==
    LET parts == <<crate_name>> \o module_path
                 \o (CASE kind.kind = "FreeFn" -> <<name>>
                       [] kind.kind = "TraitMethod" -> <<kind.trait_name, name>>
                       [] kind.kind = "ImplMethod" -> <<kind.self_ty, name>>)
    IN Join(parts, "::")

\* FnSpan (index.rs:6-14)
FnSpan(fq, is_public, kind, file, se) ==
    [fq_name |-> fq, is_public |-> is_public, kind |-> kind, file |-> file,
     start |-> se.start, end |-> se.end]

\* Builder as EnclosingIndex::build creates it (index.rs:38-46)
Builder_new ==
    [crate_name |-> CrateName, file_path |-> UnitPath, mod_stack |-> <<>>,
     out |-> <<>>, impl_self_ty |-> None, impl_trait_ty |-> None,
     in_trait |-> None]

RECURSIVE Builder_visit_node(_, _), Builder_visit_all(_, _)

\* index.rs:139-147
Builder_visit_item_mod(b, i) ==
    IF IsSome(i.content)
    THEN LET walked == Builder_visit_all([b EXCEPT !.mod_stack = Append(@, i.ident)],
                                         Unwrap(i.content))
         IN [walked EXCEPT !.mod_stack = SubSeq(@, 1, Len(@) - 1)]
    ELSE b

\* index.rs:149-154
Builder_visit_item_trait(b, i) ==
    LET prev == b.in_trait
        walked == Builder_visit_all([b EXCEPT !.in_trait = Some(i.ident)], i.items)
    IN [walked EXCEPT !.in_trait = prev]

\* index.rs:156-177
Builder_visit_item_impl(b, i) ==
    LET prev_self == b.impl_self_ty
        prev_trait == b.impl_trait_ty
        set == [b EXCEPT !.impl_self_ty = Some(i.self_ty[Len(i.self_ty)]),
                         !.impl_trait_ty =
                            IF IsSome(i.trait_) THEN Some(Join(Unwrap(i.trait_), "::"))
                            ELSE None]
        walked == Builder_visit_all(set, i.items)
    IN [walked EXCEPT !.impl_self_ty = prev_self, !.impl_trait_ty = prev_trait]

\* index.rs:179-201
Builder_visit_item_fn(b, i) ==
    LET kind == IF IsSome(b.in_trait) THEN TraitMethod(Unwrap(b.in_trait)) ELSE FreeFn
        fq == index_fq_name(b.crate_name, b.mod_stack, kind, i.ident)
        pushed == [b EXCEPT !.out = Append(@,
                     FnSpan(fq, index_vis_is_public(i.vis) \/ kind.kind = "TraitMethod",
                            kind, b.file_path, span_start_end))]
    IN Builder_visit_all(pushed, i.block)

\* index.rs:203-223
Builder_visit_impl_item_fn(b, i) ==
    LET self_ty == IF IsSome(b.impl_self_ty) THEN Unwrap(b.impl_self_ty)
                   ELSE Str("<impl>")
        kind == ImplMethod(self_ty, b.impl_trait_ty)
        fq == index_fq_name(b.crate_name, b.mod_stack, kind, i.ident)
        pushed == [b EXCEPT !.out = Append(@,
                     FnSpan(fq, index_vis_is_public(i.vis), kind, b.file_path,
                            span_start_end))]
    IN Builder_visit_all(pushed, i.block)

\* index.rs:225-244
Builder_visit_trait_item_fn(b, i) ==
    LET tr == IF IsSome(b.in_trait) THEN Unwrap(b.in_trait) ELSE Str("<trait>")
        kind == TraitMethod(tr)
        fq == index_fq_name(b.crate_name, b.mod_stack, kind, i.ident)
        pushed == [b EXCEPT !.out = Append(@,
                     FnSpan(fq, TRUE, kind, b.file_path, span_start_end))]
    IN IF IsSome(i.default) THEN Builder_visit_all(pushed, Unwrap(i.default))
       ELSE pushed

\* syn::visit's dispatch; the other nodes of the units hold no item
Builder_visit_node(b, n) ==
    CASE n.t = "Mod" -> Builder_visit_item_mod(b, n)
      [] n.t = "Trait" -> Builder_visit_item_trait(b, n)
      [] n.t = "Impl" -> Builder_visit_item_impl(b, n)
      [] n.t = "Fn" -> Builder_visit_item_fn(b, n)
      [] n.t = "ImplFn" -> Builder_visit_impl_item_fn(b, n)
      [] n.t = "TraitFn" -> Builder_visit_trait_item_fn(b, n)
      [] OTHER -> b
Builder_visit_all(b, nodes) ==
    IF nodes = <<>> THEN b
    ELSE Builder_visit_all(Builder_visit_node(b, Head(nodes)), Tail(nodes))

\* index.rs:50: the key of the sort, the start line or 0
start_line_key(f) == IF IsSome(f.start) THEN Unwrap(f.start)[1] ELSE 0

\* Vec::sort_by_key is stable: f goes behind the spans whose key is not larger
RECURSIVE insert_by_start(_, _)
insert_by_start(sorted, f) ==
    IF sorted = <<>> THEN <<f>>
    ELSE IF start_line_key(sorted[Len(sorted)]) <= start_line_key(f)
         THEN Append(sorted, f)
         ELSE Append(insert_by_start(SubSeq(sorted, 1, Len(sorted) - 1), f),
                     sorted[Len(sorted)])
RECURSIVE sort_by_start(_)
sort_by_start(spans) ==
    IF spans = <<>> THEN <<>>
    ELSE insert_by_start(sort_by_start(SubSeq(spans, 1, Len(spans) - 1)),
                         spans[Len(spans)])

\* index.rs:37-55: the spans stored under the unit's path
EnclosingIndex_build(items) ==
    sort_by_start(Builder_visit_all(Builder_new, items).out)

InitFacts ==
    /\ LocatedIdle
    /\ UseSitesIdle
    /\ MergeIdle
    /\ VisitIdle
    /\ AbsImportsIdle
    /\ ExportsIdle
    /\ ParseFilesIdle
    /\ DocCovIdle
    /\ NoStdIdle
    /\ RulesIdle
    /\ ImpQueryIdle
    /\ FnQueryIdle
    /\ IndexIdle
    /\ FqIdle
    /\ DiffIdle /\ ImportsIdle /\ ClassifyIdle /\ SetsIdle /\ ParseIdle
    /\ occFile \in {Some(u) : u \in OccUnits(MaxAstNodes)}
    /\ occOut = None /\ fnOut = None /\ idxOut = None

\* klepto.rs:355: functions.extend(extract_functions(..))
ExtractFunctions ==
    /\ IsSome(occFile) /\ fnOut = None
    /\ fnOut' = Some(extract_functions(Unwrap(occFile)))
    /\ UNCHANGED <<idxOut, notFacts>>

\* klepto.rs:365-366: EnclosingIndex::build for the unit
BuildIndex ==
    /\ IsSome(occFile) /\ idxOut = None
    /\ idxOut' = Some(EnclosingIndex_build(Unwrap(occFile)))
    /\ UNCHANGED <<fnOut, notFacts>>

NextFacts == ExtractFunctions \/ ExtractOccurrences \/ BuildIndex

SpecFacts == InitFacts /\ [][NextFacts]_vars

(***************************************************************************)
(* Claims about the public flag and the fq name of function-like items.    *)
(***************************************************************************)
IsFnNode(n) == n.t \in {"Fn", "ImplFn", "TraitFn"}

\* The nodes directly inside a node, in source order.
ChildrenOf(n) ==
    CASE n.t = "Mod" -> IF IsSome(n.content) THEN Unwrap(n.content) ELSE <<>>
      [] n.t \in {"Trait", "Impl"} -> n.items
      [] n.t \in {"Fn", "ImplFn"} -> n.block
      [] n.t = "TraitFn" -> IF IsSome(n.default) THEN Unwrap(n.default) ELSE <<>>
      [] n.t = "Const" -> <<n.expr>>
      [] n.t = "ExprCall" -> <<n.func>>
      [] n.t = "ExprMethodCall" -> <<n.receiver>>
      [] OTHER -> <<>>

\* The function-like items of a unit, nested ones included, in source order.
RECURSIVE FnNodes(_)
FnNodes(nodes) ==
    IF nodes = <<>> THEN <<>>
    ELSE (IF IsFnNode(Head(nodes)) THEN <<Head(nodes)>> ELSE <<>>)
         \o FnNodes(ChildrenOf(Head(nodes))) \o FnNodes(Tail(nodes))

\* The function-like items extract_functions looks at: the fn items, impl
\* methods and trait methods at the top of the unit or of an inline module.
RECURSIVE OuterFnNodes(_)
OuterFnNodes(items) ==
    IF items = <<>> THEN <<>>
    ELSE LET i == Head(items)
         IN (CASE i.t = "Fn" -> <<i>>
               [] i.t \in {"Impl", "Trait"} -> i.items
               [] i.t = "Mod" -> OuterFnNodes(ChildrenOf(i))
               [] OTHER -> <<>>)
            \o OuterFnNodes(Tail(items))

\* The flag as stated: plain `pub` on the item itself, or a method declared
\* in a trait definition.
ClaimedPublic(n) == n.t = "TraitFn" \/ (n.t \in {"Fn", "ImplFn"} /\ n.vis.vis = "Public")
ClaimedFlags(fns) == [i \in DOMAIN fns |-> ClaimedPublic(fns[i])]

\* The enclosing_public each recorded fact would carry under the stated
\* flag, by vector, in source order.
RECURSIVE ClaimedPublicIn(_, _), ClaimedPublicAll(_, _)
ClaimedPublicIn(n, pub) ==
    LET inner == IF IsFnNode(n) THEN Some(ClaimedPublic(n)) ELSE pub
        path(p, q) == IF PathRecorded(p) THEN <<[vec |-> "paths", pub |-> q]>> ELSE <<>>
        own == CASE n.t = "Impl" ->
                        (IF IsSome(n.trait_) THEN path(Unwrap(n.trait_), pub) ELSE <<>>)
                        \o path(n.self_ty, pub)
                 [] n.t \in {"Fn", "ImplFn"} ->
                        IF n.vis.vis = "Restricted" THEN path(n.vis.path, inner) ELSE <<>>
                 [] n.t \in {"ItemMacro", "ExprMacro"} ->
                        <<[vec |-> "macros_inv", pub |-> pub]>> \o path(n.path, pub)
                 [] n.t = "ExprPath" -> path(n.path, pub)
                 [] n.t \in {"ExprCall", "ExprMethodCall"} ->
                        <<[vec |-> "calls", pub |-> pub]>>
                 [] OTHER -> <<>>
    IN own \o ClaimedPublicAll(ChildrenOf(n), inner)
ClaimedPublicAll(nodes, pub) ==
    IF nodes = <<>> THEN <<>>
    ELSE ClaimedPublicIn(Head(nodes), pub) \o ClaimedPublicAll(Tail(nodes), pub)

\* C11: the public flag of a function-like item is true iff the item itself
\* is plain `pub` or is a method declared in a trait definition, and the
\* FunctionFact, the enclosing-function context of extract_occurrences and
\* the FnSpan of the index all carry that flag for the declaration.
C11_SameVisibilityFlag ==
    LET unit == Unwrap(occFile)
    IN /\ IsSome(fnOut) =>
            [i \in DOMAIN Unwrap(fnOut) |-> Unwrap(fnOut)[i].is_public]
                = ClaimedFlags(OuterFnNodes(unit))
       /\ IsSome(idxOut) =>
            [i \in DOMAIN Unwrap(idxOut) |-> Unwrap(idxOut)[i].is_public]
                = ClaimedFlags(FnNodes(unit))
       /\ IsSome(occOut) =>
            \A vec \in {"macros_inv", "paths", "calls"} :
                [i \in DOMAIN Unwrap(occOut)[vec] |->
                    [vec |-> vec, pub |-> Unwrap(occOut)[vec][i].enclosing_public]]
                = SelectSeq(ClaimedPublicAll(unit, None), LAMBDA a : a.vec = vec)

(***************************************************************************)
(* fq_name (extract.rs:75-91) over two declarations of one crate.          *)
(***************************************************************************)
MaxModDepth == 2

\* The idents that name modules, self types and traits, and the function
\* names.
FqIdents == {Str("a"), Str("S")}
FnNames == {Str("f"), Str("g")}
FnKinds ==
    {FreeFn} \cup {TraitMethod(q) : q \in FqIdents}
    \cup {ImplMethod(q, t) : q \in FqIdents, t \in {None, Some(Str("T"))}}

\* A declaration as extract_functions meets it: the module stack, the kind
\* and the name of the function.
Declarations(depth) ==
    [module_path : BoundedSeq(FqIdents, depth), kind : FnKinds, name : FnNames]

InitFq ==
    /\ LocatedIdle
    /\ UseSitesIdle
    /\ MergeIdle
    /\ VisitIdle
    /\ AbsImportsIdle
    /\ ExportsIdle
    /\ ParseFilesIdle
    /\ DocCovIdle
    /\ NoStdIdle
    /\ RulesIdle
    /\ ImpQueryIdle
    /\ FnQueryIdle
    /\ IndexIdle
    /\ DiffIdle /\ ImportsIdle /\ ClassifyIdle /\ SetsIdle /\ ParseIdle /\ OccIdle
    /\ fqDecls \in Declarations(MaxModDepth) \X Declarations(MaxModDepth)
    /\ fqNames = None

\* extract.rs:525, 567, 600: the fq name of each declaration
ComputeFqNames ==
    /\ fqNames = None
    /\ fqNames' = Some([i \in 1..2 |->
                    extract_fq_name(CrateName, fqDecls[i].module_path,
                                    fqDecls[i].kind, fqDecls[i].name)])
    /\ UNCHANGED <<fqDecls, notFq>>

NextFq == ComputeFqNames

SpecFq == InitFq /\ [][NextFq]_vars

\* The self-type or trait a kind qualifies the name with, if any.
Qualifier(kind) ==
    CASE kind.kind = "FreeFn" -> None
      [] kind.kind = "TraitMethod" -> Some(kind.trait_name)
      [] kind.kind = "ImplMethod" -> Some(kind.self_ty)

\* C12: fq_name is a function of (crate, module path, kind, name), and two
\* declarations of one crate with the same name and distinct kinds, whatever
\* their module paths, get the same fq name only if they carry the same
\* self-type/trait qualifier.
C12_KindsCollideOnlyOnQualifier ==
    IsSome(fqNames) =>
        LET d1 == fqDecls[1]
            d2 == fqDecls[2]
            n == Unwrap(fqNames)
        IN /\ d1 = d2 => n[1] = n[2]
           /\ (/\ d1.name = d2.name
               /\ d1.kind.kind # d2.kind.kind
               /\ n[1] = n[2])
              => Qualifier(d1.kind) = Qualifier(d2.kind)

(***************************************************************************)
(* Span index lookups: FnSpan::contains (index.rs:17-28) and               *)
(* EnclosingIndex::enclosing (index.rs:64-75).                             *)
(***************************************************************************)
MaxSpans == 2

\* The paths, lines and columns of the spans and locations looked at.
IndexPaths == {"src/a.rs", "src/b.rs"}
IndexLines == {1, 2}
IndexColumns == {0, 1}
Positions == IndexLines \X IndexColumns

\* FileLocation (model.rs:6-10)
FileLocation(path, line, column) == [path |-> path, line |-> line, column |-> column]
FileLocations ==
    {FileLocation(p, l, c) : p \in IndexPaths,
        l \in {None} \cup {Some(x) : x \in IndexLines},
        c \in {None} \cup {Some(x) : x \in IndexColumns}}

\* (line, col) pairs in lexicographic order, as the comparison of
\* index.rs:27 spells it out
AtOrAfter(line, col, sl, sc) == line > sl \/ (line = sl /\ col >= sc)
AtOrBefore(line, col, el, ec) == line < el \/ (line = el /\ col <= ec)

\* Any FnSpan a caller can make: the fields are public.
AnyFnSpans ==
    {FnSpan(<<"mycrate", "::", "f">>, TRUE, FreeFn, p, [start |-> s, end |-> e]) :
        p \in IndexPaths,
        s \in {None} \cup {Some(x) : x \in Positions},
        e \in {None} \cup {Some(x) : x \in Positions}}

\* The FnSpans EnclosingIndex::build stores under path p: both ends absent,
\* or a start that is not behind the end.
BuiltFnSpans(p) ==
    {f \in AnyFnSpans :
        /\ f.file = p
        /\ IsSome(f.start) = IsSome(f.end)
        /\ IsSome(f.start) =>
              AtOrBefore(Unwrap(f.start)[1], Unwrap(f.start)[2],
                         Unwrap(f.end)[1], Unwrap(f.end)[2])}

\* index.rs:17-28
contains_ExclusiveEnd(self, l) ==
    IF self.file # l.path THEN FALSE
    ELSE IF ~(IsSome(l.line) /\ IsSome(l.column)) THEN FALSE
    ELSE IF ~IsSome(self.start) THEN FALSE
    ELSE IF ~IsSome(self.end) THEN FALSE
    ELSE LET line == Unwrap(l.line)
             col == Unwrap(l.column)
             sl == Unwrap(self.start)[1]
             sc == Unwrap(self.start)[2]
             el == Unwrap(self.end)[1]
             ec == Unwrap(self.end)[2]
         IN (line > sl \/ (line = sl /\ col >= sc))
            /\ (line < el \/ (line = el /\ col < ec))
contains(self, l) ==
    IF self.file # l.path THEN FALSE
    ELSE IF ~(IsSome(l.line) /\ IsSome(l.column)) THEN FALSE
    ELSE IF ~IsSome(self.start) THEN FALSE
    ELSE IF ~IsSome(self.end) THEN FALSE
    ELSE LET line == Unwrap(l.line)
             col == Unwrap(l.column)
             sl == Unwrap(self.start)[1]
             sc == Unwrap(self.start)[2]
             el == Unwrap(self.end)[1]
             ec == Unwrap(self.end)[2]
         IN (line > sl \/ (line = sl /\ col >= sc))
            /\ (line < el \/ (line = el /\ col <= ec))

InitContains ==
    /\ LocatedIdle
    /\ UseSitesIdle
    /\ MergeIdle
    /\ VisitIdle
    /\ AbsImportsIdle
    /\ ExportsIdle
    /\ ParseFilesIdle
    /\ DocCovIdle
    /\ NoStdIdle
    /\ RulesIdle
    /\ ImpQueryIdle
    /\ FnQueryIdle
    /\ DiffIdle /\ ImportsIdle /\ ClassifyIdle /\ SetsIdle /\ ParseIdle /\ OccIdle
    /\ FqIdle
    /\ span \in {Some(f) : f \in AnyFnSpans}
    /\ loc \in {Some(l) : l \in FileLocations}
    /\ containsOut = None /\ by_file = <<>> /\ enclosingOut = None

Contains ==
    /\ IsSome(span) /\ containsOut = None
    /\ containsOut' = Some(contains(Unwrap(span), Unwrap(loc)))
    /\ UNCHANGED <<span, loc, by_file, enclosingOut, notIndex>>

NextContains == Contains

SpecContains == InitContains /\ [][NextContains]_vars

saturating_sub(a, b) == IF a >= b THEN a - b ELSE 0

\* index.rs:69-74: the key of min_by_key, the number of lines the span
\* runs over.  The spans it is taken of have passed contains, so they have
\* an end and the default of unwrap_or(u32::MAX) is never taken.
line_extent(f) ==
    LET sl == IF IsSome(f.start) THEN Unwrap(f.start)[1] ELSE 0
        el == CASE IsSome(f.end) -> Unwrap(f.end)[1]
    IN saturating_sub(el, sl)

\* Iterator::min_by_key: the first of the elements with the least key
min_by_key_Last(v) ==
    IF v = <<>> THEN None
    ELSE LET i == CHOOSE j \in DOMAIN v : \A k \in DOMAIN v : k # j => j > k
         IN Some(v[i])
min_by_key(v) ==
    IF v = <<>> THEN None
    ELSE LET i == CHOOSE j \in DOMAIN v :
                    /\ \A k \in DOMAIN v : line_extent(v[j]) <= line_extent(v[k])
                    /\ \A k \in 1..(j - 1) : line_extent(v[k]) > line_extent(v[j])
         IN Some(v[i])

\* index.rs:64-75
enclosing(index, l) ==
    IF l.path \notin DOMAIN index THEN None
    ELSE min_by_key(SelectSeq(index[l.path], LAMBDA f : contains(f, l)))

\* The index holds the spans of src/a.rs; src/b.rs was never indexed.
InitEnclosing ==
    /\ LocatedIdle
    /\ UseSitesIdle
    /\ MergeIdle
    /\ VisitIdle
    /\ AbsImportsIdle
    /\ ExportsIdle
    /\ ParseFilesIdle
    /\ DocCovIdle
    /\ NoStdIdle
    /\ RulesIdle
    /\ ImpQueryIdle
    /\ FnQueryIdle
    /\ DiffIdle /\ ImportsIdle /\ ClassifyIdle /\ SetsIdle /\ ParseIdle /\ OccIdle
    /\ FqIdle
    /\ span = None /\ containsOut = None
    /\ by_file \in {[p \in {"src/a.rs"} |-> v] :
                        v \in BoundedSeq(BuiltFnSpans("src/a.rs"), MaxSpans)}
    /\ loc \in {Some(l) : l \in FileLocations}
    /\ enclosingOut = None

Enclosing ==
    /\ IsSome(loc) /\ span = None /\ enclosingOut = None
    /\ enclosingOut' = Some(enclosing(by_file, Unwrap(loc)))
    /\ UNCHANGED <<span, loc, containsOut, by_file, notIndex>>

NextEnclosing == Enclosing

SpecEnclosing == InitEnclosing /\ [][NextEnclosing]_vars

\* The spans stored for the location's file that contain it, by the stated
\* rule of containment.
StoredFor(l) == IF l.path \in DOMAIN by_file THEN by_file[l.path] ELSE <<>>
Brackets(f, l) ==
    /\ l.path = f.file
    /\ IsSome(l.line) /\ IsSome(l.column) /\ IsSome(f.start) /\ IsSome(f.end)
    /\ AtOrAfter(Unwrap(l.line), Unwrap(l.column), Unwrap(f.start)[1], Unwrap(f.start)[2])
    /\ AtOrBefore(Unwrap(l.line), Unwrap(l.column), Unwrap(f.end)[1], Unwrap(f.end)[2])
LinesOf(f) == Unwrap(f.end)[1] - Unwrap(f.start)[1]

MaxQueryFns == 2
MaxCalls == 2

\* str::contains
str_contains(s, pat) ==
    \E i \in 0..(Len(s) - Len(pat)) : SubSeq(s, i + 1, i + Len(pat)) = pat

\* The functions of the collections: fn a (private, documented, async),
\* pub fn b -> ab, pub fn ab(ab) of impl S with #[inline], fn ab of trait T.
QueryFn(name, is_public, has_doc, kind, is_async, return_ty, args, attrs) ==
    [name |-> name, is_public |-> is_public, has_docs |-> has_doc, kind |-> kind,
     is_async |-> is_async, is_unsafe |-> FALSE, is_const |-> FALSE,
     is_generic |-> FALSE, return_ty |-> return_ty, args |-> args, attrs |-> attrs]
QueryFns ==
    {QueryFn(<<"a">>, FALSE, TRUE, FreeFn, TRUE, None, <<>>, <<>>),
     QueryFn(<<"b">>, TRUE, FALSE, FreeFn, FALSE, Some(<<"a", "b">>), <<>>, <<>>),
     QueryFn(<<"a", "b">>, TRUE, FALSE, ImplMethod(<<"S">>, None), FALSE, None,
             <<<<"a", "b">>>>, <<<<"a">>>>),
     QueryFn(<<"a", "b">>, TRUE, TRUE, TraitMethod(<<"T">>), FALSE, None, <<>>, <<>>)}

\* The arguments given to the builder calls that take a string.
QueryStrings == {<<"a">>, <<"b">>}

\* query.rs:76-95
FnQuery_new ==
    [public_only |-> FALSE, no_docs |-> FALSE, in_impl |-> None,
     impls_trait |-> None, in_trait |-> None, name_contains |-> None,
     returns_contains |-> None, takes_arg_contains |-> None,
     is_async |-> None, is_unsafe |-> None, is_const |-> None,
     is_generic |-> None, has_attr |-> None]

\* Vec::retain with the predicate of every filter that is set, in the order
\* of query.rs:133-163 (name_matches is never called, so name_regex is None)
retain(v, q) ==
    SelectSeq(v, LAMBDA f :
        /\ q.public_only => f.is_public
        /\ q.no_docs => ~f.has_docs
        /\ IsSome(q.in_impl) =>
              f.kind.kind = "ImplMethod" /\ f.kind.self_ty = Unwrap(q.in_impl)
        /\ IsSome(q.impls_trait) =>
              f.kind.kind = "ImplMethod" /\ f.kind.trait_ty = Some(Unwrap(q.impls_trait))
        /\ IsSome(q.in_trait) =>
              f.kind.kind = "TraitMethod" /\ f.kind.trait_name = Unwrap(q.in_trait)
        /\ IsSome(q.name_contains) => str_contains(f.name, Unwrap(q.name_contains))
        /\ IsSome(q.returns_contains) =>
              str_contains(IF IsSome(f.return_ty) THEN Unwrap(f.return_ty) ELSE <<>>,
                           Unwrap(q.returns_contains))
        /\ IsSome(q.takes_arg_contains) =>
              \E i \in DOMAIN f.args : str_contains(f.args[i], Unwrap(q.takes_arg_contains))
        /\ IsSome(q.is_async) => f.is_async = Unwrap(q.is_async)
        /\ IsSome(q.is_unsafe) => f.is_unsafe = Unwrap(q.is_unsafe)
        /\ IsSome(q.is_const) => f.is_const = Unwrap(q.is_const)
        /\ IsSome(q.is_generic) => f.is_generic = Unwrap(q.is_generic)
        /\ IsSome(q.has_attr) => \E i \in DOMAIN f.attrs : f.attrs[i] = Unwrap(q.has_attr))

\* query.rs:130-166
FnQuery_collect(k_functions, q) == retain(k_functions, q)

\* One builder call: the field it writes and the value it leaves there
\* (query.rs:98-122).
BuilderCall(method, arg, field, value) ==
    [method |-> method, arg |-> arg, field |-> field, value |-> value]
CallsWith(method, field, args) ==
    {BuilderCall(method, Some(a), field, Some(a)) : a \in args}
BuilderCalls ==
    {BuilderCall("public_only", None, "public_only", TRUE),
     BuilderCall("no_docs", None, "no_docs", TRUE)}
    \cup CallsWith("in_impl", "in_impl", {<<"S">>})
    \cup CallsWith("impls_trait", "impls_trait", {<<"T">>})
    \cup CallsWith("in_trait", "in_trait", {<<"T">>})
    \cup CallsWith("named", "name_contains", QueryStrings)
    \cup CallsWith("name_contains", "name_contains", QueryStrings)
    \cup CallsWith("returns", "returns_contains", QueryStrings)
    \cup CallsWith("takes_arg", "takes_arg_contains", QueryStrings)
    \cup CallsWith("has_attr", "has_attr", QueryStrings)
    \cup CallsWith("is_async", "is_async", BOOLEAN)
    \cup CallsWith("is_unsafe", "is_unsafe", BOOLEAN)
    \cup CallsWith("is_const", "is_const", BOOLEAN)
    \cup CallsWith("is_generic", "is_generic", BOOLEAN)

InitFnQuery ==
    /\ LocatedIdle
    /\ UseSitesIdle
    /\ MergeIdle
    /\ VisitIdle
    /\ AbsImportsIdle
    /\ ExportsIdle
    /\ ParseFilesIdle
    /\ DocCovIdle
    /\ NoStdIdle
    /\ RulesIdle
    /\ ImpQueryIdle
    /\ DiffIdle /\ ImportsIdle /\ ClassifyIdle /\ SetsIdle /\ ParseIdle /\ OccIdle
    /\ FqIdle /\ IndexIdle
    /\ functions \in BoundedSeq(QueryFns, MaxQueryFns)
    /\ fnQuery = Some(FnQuery_new)
    /\ fnCalls = <<>>
    /\ fnCollected = None

\* A builder method is called on the query: `mut self` with one field
\* assigned, handed back.
FnQueryCall(c) ==
    /\ IsSome(fnQuery) /\ Len(fnCalls) < MaxCalls
    /\ fnQuery' = Some([Unwrap(fnQuery) EXCEPT ![c.field] = c.value])
    /\ fnCalls' = Append(fnCalls, c)
    /\ UNCHANGED <<functions, fnCollected, notFnQuery>>

\* collect() consumes the query.
FnQueryCollect ==
    /\ IsSome(fnQuery)
    /\ fnCollected' = Some(FnQuery_collect(functions, Unwrap(fnQuery)))
    /\ fnQuery' = None
    /\ UNCHANGED <<functions, fnCalls, notFnQuery>>

NextFnQuery == (\E c \in BuilderCalls : FnQueryCall(c)) \/ FnQueryCollect

SpecFnQuery == InitFnQuery /\ [][NextFnQuery]_vars

\* The predicate one builder call stands for.
Satisfies(f, c) ==
    CASE c.method = "public_only" -> f.is_public
      [] c.method = "no_docs" -> ~f.has_docs
      [] c.method = "in_impl" ->
            f.kind.kind = "ImplMethod" /\ f.kind.self_ty = Unwrap(c.arg)
      [] c.method = "impls_trait" ->
            f.kind.kind = "ImplMethod" /\ f.kind.trait_ty = c.arg
      [] c.method = "in_trait" ->
            f.kind.kind = "TraitMethod" /\ f.kind.trait_name = Unwrap(c.arg)
      [] c.method \in {"named", "name_contains"} -> str_contains(f.name, Unwrap(c.arg))
      [] c.method = "returns" ->
            IsSome(f.return_ty) /\ str_contains(Unwrap(f.return_ty), Unwrap(c.arg))
      [] c.method = "takes_arg" ->
            \E i \in DOMAIN f.args : str_contains(f.args[i], Unwrap(c.arg))
      [] c.method = "has_attr" -> \E i \in DOMAIN f.attrs : f.attrs[i] = Unwrap(c.arg)
      [] c.method = "is_async" -> f.is_async = Unwrap(c.arg)
      [] c.method = "is_unsafe" -> f.is_unsafe = Unwrap(c.arg)
      [] c.method = "is_const" -> f.is_const = Unwrap(c.arg)
      [] c.method = "is_generic" -> f.is_generic = Unwrap(c.arg)

\* C15: collect returns, in the order of the collection, exactly the
\* functions that satisfy every predicate given through the builder calls,
\* one conjunct per call (also for a predicate called twice with different
\* arguments); with no call made it returns the whole collection.
C15_CollectIsConjunctionOfCalls ==
    IsSome(fnCollected) =>
        Unwrap(fnCollected)
            = SelectSeq(functions,
                        LAMBDA f : \A i \in DOMAIN fnCalls : Satisfies(f, fnCalls[i]))

(***************************************************************************)
(* Import query: ImportQuery (query.rs:5-50).                              *)
(***************************************************************************)
MaxQueryImports == 2

\* The imports of the collections, as emit makes them and classify_imports
\* marks them when my_lib is a workspace member and serde a dependency:
\* use std::Item, use serde::Item, pub use my_lib::Item, use crate::Item.
QueryImports ==
    LET made == <<ImportOfRoot(Str("std")), ImportOfRoot(Str("serde")),
                  [ImportOfRoot(<<"my", "_", "lib">>) EXCEPT !.is_public_use = TRUE],
                  ImportOfRoot(Str("crate"))>>
    IN Range(classify_imports(made, {<<"my", "_", "lib">>}, {Str("serde")}))

\* str::starts_with
starts_with(s, pat) == Len(pat) <= Len(s) /\ SubSeq(s, 1, Len(pat)) = pat

\* query.rs:16-18
ImportQuery_new ==
    [root |-> None, internal_only |-> FALSE, public_use_only |-> FALSE,
     full_prefix |-> None, origin |-> None, stdish_only |-> FALSE]

\* query.rs:31-38
ImportQuery_collect(k_imps, q) ==
    SelectSeq(k_imps, LAMBDA p :
        /\ IsSome(q.root) => p.root = Unwrap(q.root)
        /\ q.internal_only => p.is_internal
        /\ q.public_use_only => p.is_public_use
        /\ IsSome(q.full_prefix) => starts_with(p.full_path, Unwrap(q.full_prefix)))

\* The predicates a caller hands to filter().
CallerPredicates == {"any", "absolute"}
ApplyCaller(f, p) ==
    CASE f = "any" -> TRUE
      [] f = "absolute" -> p.is_absolute = Some(TRUE)

\* query.rs:25-29
ImportQuery_filter(k_imps, q, f) ==
    SelectSeq(ImportQuery_collect(k_imps, q), LAMBDA p : ApplyCaller(f, p))

\* The builder calls of ImportQuery (query.rs:20-23, 40-49): workspace_only
\* and deps_only go through origin.
ImportCalls ==
    CallsWith("root", "root", {Str("std"), Str("serde")})
    \cup {BuilderCall("internal_only", None, "internal_only", TRUE),
          BuilderCall("public_use_only", None, "public_use_only", TRUE),
          BuilderCall("stdish_only", None, "stdish_only", TRUE),
          BuilderCall("workspace_only", None, "origin", Some("WorkspaceMember")),
          BuilderCall("deps_only", None, "origin", Some("Dependency"))}
    \cup CallsWith("full_path_starts_with", "full_prefix", {Str("std"), Str("my")})
    \cup CallsWith("origin", "origin", {"Std", "Dependency"})

InitImpQuery ==
    /\ LocatedIdle
    /\ UseSitesIdle
    /\ MergeIdle
    /\ VisitIdle
    /\ AbsImportsIdle
    /\ ExportsIdle
    /\ ParseFilesIdle
    /\ DocCovIdle
    /\ NoStdIdle
    /\ RulesIdle
    /\ DiffIdle /\ ImportsIdle /\ ClassifyIdle /\ SetsIdle /\ ParseIdle /\ OccIdle
    /\ FqIdle /\ IndexIdle /\ FnQueryIdle
    /\ k_imports \in BoundedSeq(QueryImports, MaxQueryImports)
    /\ impQuery = Some(ImportQuery_new)
    /\ impCalls = <<>>
    /\ impCollected = None

ImpQueryCall(c) ==
    /\ IsSome(impQuery) /\ Len(impCalls) < MaxCalls
    /\ impQuery' = Some([Unwrap(impQuery) EXCEPT ![c.field] = c.value])
    /\ impCalls' = Append(impCalls, c)
    /\ UNCHANGED <<k_imports, impCollected, notImpQuery>>

ImpQueryCollect ==
    /\ IsSome(impQuery)
    /\ impCollected' = Some(ImportQuery_collect(k_imports, Unwrap(impQuery)))
    /\ impQuery' = None
    /\ UNCHANGED <<k_imports, impCalls, notImpQuery>>

ImpQueryFilter(f) ==
    /\ IsSome(impQuery)
    /\ impCollected' = Some(ImportQuery_filter(k_imports, Unwrap(impQuery), f))
    /\ impQuery' = None
    /\ UNCHANGED <<k_imports, impCalls, notImpQuery>>

NextImpQuery ==
    \/ \E c \in ImportCalls : ImpQueryCall(c)
    \/ ImpQueryCollect
    \/ \E f \in CallerPredicates : ImpQueryFilter(f)

SpecImpQuery == InitImpQuery /\ [][NextImpQuery]_vars

\* C16: after origin(o), workspace_only() or deps_only(), collect() and
\* filter() return only imports whose origin equals o.
C16_OriginFilterApplied ==
    IsSome(impCollected) =>
        \A i \in DOMAIN impCalls :
            impCalls[i].field = "origin" /\ (\A j \in (i + 1)..Len(impCalls) :
                                                impCalls[j].field # "origin")
            => \A n \in DOMAIN Unwrap(impCollected) :
                    Unwrap(impCollected)[n].origin = impCalls[i].value

(***************************************************************************)
(* Rules: the Rule trait and RuleRunner (rules/mod.rs), the built-in rules *)
(* (rules/builtin.rs).  The texts a rule searches are sequences of         *)
(* characters.                                                             *)
(***************************************************************************)
MaxRuleFacts == 2
MaxRules == 5

\* The names the rules look for, and the other texts of the sample.
unwrap == <<"u", "n", "w", "r", "a", "p">>
expect == <<"e", "x", "p", "e", "c", "t">>
panic == <<"p", "a", "n", "i", "c">>
todo == <<"t", "o", "d", "o">>
unreachable == <<"u", "n", "r", "e", "a", "c", "h", "a", "b", "l", "e">>
println == <<"p", "r", "i", "n", "t", "l", "n">>

\* CapturedFn, the fields the rules read.
RuleFn(fq, is_public, has_doc) ==
    [fq_name |-> fq, is_public |-> is_public, has_docs |-> has_doc,
     module_path |-> <<>>, signature |-> <<"fn">>,
     location |-> span_to_location(UnitPath)]

\* pub fn f and pub fn g without docs, pub fn f with docs, fn g without.
RuleFns ==
    {RuleFn(<<"c", ":", ":", "f">>, TRUE, FALSE),
     RuleFn(<<"c", ":", ":", "g">>, TRUE, FALSE),
     RuleFn(<<"c", ":", ":", "f">>, TRUE, TRUE),
     RuleFn(<<"c", ":", ":", "g">>, FALSE, FALSE)}

\* What extract_occurrences leaves in enclosing_fn and enclosing_public:
\* both absent at module scope, both present inside a function.
Enclosings ==
    {[enclosing_fn |-> None, enclosing_public |-> None],
     [enclosing_fn |-> Some(<<"c", ":", ":", "f">>), enclosing_public |-> Some(TRUE)],
     [enclosing_fn |-> Some(<<"c", ":", ":", "g">>), enclosing_public |-> Some(FALSE)]}
InPublicFn == [enclosing_fn |-> Some(<<"c", ":", ":", "f">>), enclosing_public |-> Some(TRUE)]

\* CallOccurrence
RuleCall(callee, enc) ==
    [callee |-> callee, module_path |-> <<>>,
     location |-> span_to_location(UnitPath),
     enclosing_fn |-> enc.enclosing_fn, enclosing_public |-> enc.enclosing_public]

\* The callee texts: x.unwrap(), x.expect(..), x.unwrap_or(..), expected(),
\* Option::unwrap(x), x.run().
Callees ==
    {unwrap, expect, unwrap \o <<"_", "o", "r">>, expect \o <<"e", "d">>,
     <<"O", "p", "t", "i", "o", "n", " ", ":", ":", " ">> \o unwrap,
     <<"r", "u", "n">>}

RuleCalls ==
    {RuleCall(c, InPublicFn) : c \in Callees}
    \cup {RuleCall(c, e) : c \in {unwrap, expect}, e \in Enclosings}

\* MacroInvocation
RuleMacro(name, enc) ==
    [name |-> name, module_path |-> <<>>, path |-> Some(name),
     location |-> span_to_location(UnitPath),
     enclosing_fn |-> enc.enclosing_fn, enclosing_public |-> enc.enclosing_public]

RuleMacros ==
    {RuleMacro(n, InPublicFn) : n \in {panic, todo, unreachable, println}}
    \cup {RuleMacro(n, e) : n \in {panic, todo}, e \in Enclosings}

\* PathOccurrence
RulePath(path) ==
    [path |-> path, module_path |-> <<>>, location |-> span_to_location(UnitPath),
     enclosing_fn |-> None, enclosing_public |-> None]

RulePaths == {RulePath(<<"std", "::", "x">>), RulePath(<<"core">>)}

RuleImports == {ImportOfRoot(Str("std")), ImportOfRoot(Str("serde"))}

\* The facts of every kind that the collections are filled from.
RuleFacts == RuleFns \cup RuleCalls \cup RuleMacros \cup RulePaths \cup RuleImports

\* A smaller sample in which every fact makes some built-in rule emit.
RunnerFacts ==
    {RuleFn(<<"c", ":", ":", "f">>, TRUE, FALSE),
     RuleFn(<<"c", ":", ":", "g">>, TRUE, FALSE),
     RuleCall(unwrap, InPublicFn),
     RuleMacro(panic, InPublicFn),
     ImportOfRoot(Str("std"))}

\* Klepto (klepto.rs:41-59), the collections the rules read, each holding
\* the facts of its kind in the order they were extracted.
KleptoOf(facts, no_std) ==
    [functions |-> SelectSeq(facts, LAMBDA f : "fq_name" \in DOMAIN f),
     imports |-> SelectSeq(facts, LAMBDA f : "root" \in DOMAIN f),
     macros_inv |-> SelectSeq(facts, LAMBDA f : "name" \in DOMAIN f),
     paths |-> SelectSeq(facts, LAMBDA f :
                    "path" \in DOMAIN f /\ "name" \notin DOMAIN f),
     calls |-> SelectSeq(facts, LAMBDA f : "callee" \in DOMAIN f),
     no_std_detected |-> no_std]

Kleptos(facts, max) ==
    {KleptoOf(fs, n) : fs \in BoundedSeq(facts, max), n \in BOOLEAN}

\* model.rs:162-169
Finding(severity, code, message, location) ==
    [severity |-> severity, code |-> code, message |-> message,
     location |-> location]

\* Option::unwrap_or_else(|| "<unknown>".into())
unwrap_or_unknown(o) == IF IsSome(o) THEN Unwrap(o) ELSE <<"<unknown>">>

\* Iterator::map(..).collect()
MapSeq(s, F(_)) == [i \in DOMAIN s |-> F(s[i])]

\* rules/builtin.rs:11-22
UndocumentedPublicApi_run_AnyPublic(k) ==
    MapSeq(SelectSeq(k.functions, LAMBDA f : f.is_public),
           LAMBDA f : Finding("Warn", "KLEP001",
                        <<"public function missing docs: ">> \o f.fq_name,
                        f.location))
UndocumentedPublicApi_run(k) ==
    MapSeq(SelectSeq(k.functions, LAMBDA f : f.is_public /\ ~f.has_docs),
           LAMBDA f : Finding("Warn", "KLEP001",
                        <<"public function missing docs: ">> \o f.fq_name,
                        f.location))

\* rules/builtin.rs:30-63
UnwrapInPublicApi_run(k) ==
    MapSeq(SelectSeq(SelectSeq(k.calls, LAMBDA c : c.enclosing_public = Some(TRUE)),
                     LAMBDA c : str_contains(c.callee, unwrap)
                                \/ str_contains(c.callee, expect)),
           LAMBDA c : Finding("Warn", "KLEP002",
                        <<"panic-ish call inside public fn ">>
                        \o unwrap_or_unknown(c.enclosing_fn) \o <<": ">> \o c.callee,
                        c.location))

\* rules/builtin.rs:71-102
PanicMacrosInPublicApi_run_AnyScope(k) ==
    MapSeq(SelectSeq(k.macros_inv,
                     LAMBDA m : m.name \in {panic, todo, unreachable}),
           LAMBDA m : Finding("Warn", "KLEP003",
                        <<"macro ">> \o m.name \o <<"! inside public fn ">>
                        \o unwrap_or_unknown(m.enclosing_fn),
                        m.location))
PanicMacrosInPublicApi_run(k) ==
    MapSeq(SelectSeq(SelectSeq(k.macros_inv,
                               LAMBDA m : m.enclosing_public = Some(TRUE)),
                     LAMBDA m : m.name \in {panic, todo, unreachable}),
           LAMBDA m : Finding("Warn", "KLEP003",
                        <<"macro ">> \o m.name \o <<"! inside public fn ">>
                        \o unwrap_or_unknown(m.enclosing_fn),
                        m.location))

\* rules/builtin.rs:110-141
StdInNoStdCrate_run_Always(k) ==
    IF FALSE THEN <<>>
    ELSE MapSeq(SelectSeq(k.imports, LAMBDA i : i.root = Str("std")),
                LAMBDA i : Finding("Deny", "KLEP004",
                             <<"std import in no_std crate: ">> \o i.full_path,
                             i.location))
         \o MapSeq(SelectSeq(k.paths, LAMBDA p :
                        starts_with(p.path, <<"std", "::">>) \/ p.path = <<"std">>),
                   LAMBDA p : Finding("Deny", "KLEP004",
                                <<"std path in no_std crate: ">> \o p.path,
                                p.location))
StdInNoStdCrate_run(k) ==
    IF ~k.no_std_detected THEN <<>>
    ELSE MapSeq(SelectSeq(k.imports, LAMBDA i : i.root = Str("std")),
                LAMBDA i : Finding("Deny", "KLEP004",
                             <<"std import in no_std crate: ">> \o i.full_path,
                             i.location))
         \o MapSeq(SelectSeq(k.paths, LAMBDA p :
                        starts_with(p.path, <<"std", "::">>) \/ p.path = <<"std">>),
                   LAMBDA p : Finding("Deny", "KLEP004",
                                <<"std path in no_std crate: ">> \o p.path,
                                p.location))

\* A rule of the caller's own, handed to add_rule: one Info finding for
\* every function.
EveryFunction_run(k) ==
    MapSeq(k.functions,
           LAMBDA f : Finding("Info", "USER001", <<"function: ">> \o f.fq_name,
                        f.location))

BuiltinRules ==
    {"UndocumentedPublicApi", "UnwrapInPublicApi", "StdInNoStdCrate",
     "PanicMacrosInPublicApi"}

\* The rules a caller hands to add_rule.
AddedRules == {"EveryFunction", "UnwrapInPublicApi"}

\* Rule::run, dispatched on the rule behind the Box<dyn Rule>.
Rule_run(r, k) ==
    CASE r = "UndocumentedPublicApi" -> UndocumentedPublicApi_run(k)
      [] r = "UnwrapInPublicApi" -> UnwrapInPublicApi_run(k)
      [] r = "StdInNoStdCrate" -> StdInNoStdCrate_run(k)
      [] r = "PanicMacrosInPublicApi" -> PanicMacrosInPublicApi_run(k)
      [] r = "EveryFunction" -> EveryFunction_run(k)

\* rules/mod.rs:17-19
RuleRunner_new == <<>>

\* rules/mod.rs:21-27
with_default_rules(rules) ==
    rules \o <<"UndocumentedPublicApi", "UnwrapInPublicApi", "StdInNoStdCrate",
               "PanicMacrosInPublicApi">>

\* rules/mod.rs:29-32
add_rule(rules, r) == Append(rules, r)

\* rules/mod.rs:34-40
RECURSIVE RuleRunner_run_Reversed(_, _)
RuleRunner_run_Reversed(rules, k) ==
    IF rules = <<>> THEN <<>>
    ELSE RuleRunner_run_Reversed(Tail(rules), k) \o Rule_run(Head(rules), k)
RECURSIVE extend_all(_, _, _)
extend_all(all, rules, k) ==
    IF rules = <<>> THEN all
    ELSE extend_all(all \o Rule_run(Head(rules), k), Tail(rules), k)
RuleRunner_run(rules, k) == extend_all(<<>>, rules, k)

InitRules ==
    /\ LocatedIdle
    /\ UseSitesIdle
    /\ MergeIdle
    /\ VisitIdle
    /\ AbsImportsIdle
    /\ ExportsIdle
    /\ ParseFilesIdle
    /\ DocCovIdle
    /\ NoStdIdle
    /\ DiffIdle /\ ImportsIdle /\ ClassifyIdle /\ SetsIdle /\ ParseIdle /\ OccIdle
    /\ FqIdle /\ IndexIdle /\ FnQueryIdle /\ ImpQueryIdle
    /\ klepto \in {Some(k) : k \in Kleptos(RuleFacts, MaxRuleFacts)}
    /\ runner = None
    /\ registered = <<>>
    /\ ranRule = None
    /\ findings = None

\* r.run(&k) for one rule r
RunRule(r) ==
    /\ IsSome(klepto) /\ findings = None
    /\ findings' = Some(Rule_run(r, Unwrap(klepto)))
    /\ ranRule' = Some(r)
    /\ UNCHANGED <<klepto, runner, registered, notRules>>

NextRules == \E r \in BuiltinRules : RunRule(r)

SpecRules == InitRules /\ [][NextRules]_vars

InitRunner ==
    /\ LocatedIdle
    /\ UseSitesIdle
    /\ MergeIdle
    /\ VisitIdle
    /\ AbsImportsIdle
    /\ ExportsIdle
    /\ ParseFilesIdle
    /\ DocCovIdle
    /\ NoStdIdle
    /\ DiffIdle /\ ImportsIdle /\ ClassifyIdle /\ SetsIdle /\ ParseIdle /\ OccIdle
    /\ FqIdle /\ IndexIdle /\ FnQueryIdle /\ ImpQueryIdle
    /\ klepto \in {Some(k) : k \in Kleptos(RunnerFacts, MaxRuleFacts)}
    /\ runner = Some(RuleRunner_new)
    /\ registered = <<>>
    /\ ranRule = None
    /\ findings = None

WithDefaultRules ==
    /\ IsSome(runner) /\ Len(Unwrap(runner)) + 4 <= MaxRules
    /\ runner' = Some(with_default_rules(Unwrap(runner)))
    /\ registered' = Append(registered, [method |-> "with_default_rules"])
    /\ UNCHANGED <<klepto, ranRule, findings, notRules>>

AddRule(r) ==
    /\ IsSome(runner) /\ Len(Unwrap(runner)) < MaxRules
    /\ runner' = Some(add_rule(Unwrap(runner), r))
    /\ registered' = Append(registered, [method |-> "add_rule", rule |-> r])
    /\ UNCHANGED <<klepto, ranRule, findings, notRules>>

RunnerRun ==
    /\ IsSome(runner)
    /\ findings' = Some(RuleRunner_run(Unwrap(runner), Unwrap(klepto)))
    /\ runner' = None
    /\ UNCHANGED <<klepto, registered, ranRule, notRules>>

NextRunner ==
    \/ WithDefaultRules
    \/ \E r \in AddedRules : AddRule(r)
    \/ RunnerRun

SpecRunner == InitRunner /\ [][NextRunner]_vars

(***************************************************************************)
(* Claims about the rules.                                                 *)
(***************************************************************************)
\* The rules the registration calls name, in call order.
RECURSIVE RegisteredRules(_)
RegisteredRules(calls) ==
    IF calls = <<>> THEN <<>>
    ELSE (IF Head(calls).method = "add_rule" THEN <<Head(calls).rule>>
          ELSE with_default_rules(<<>>))
         \o RegisteredRules(Tail(calls))

\* The findings of the i-th registered rule, run on its own.
OwnFindings(i) == Rule_run(RegisteredRules(registered)[i], Unwrap(klepto))

\* How many findings the rules registered before the i-th emit together.
RECURSIVE FindingsBefore(_)
FindingsBefore(i) ==
    IF i <= 1 THEN 0 ELSE FindingsBefore(i - 1) + Len(OwnFindings(i - 1))

RunnerHasRun == registered # <<>> /\ runner = None /\ IsSome(findings)

\* C17: RuleRunner::run returns every registered rule's findings, rule after
\* rule in registration order and each rule's in its own emission order,
\* nothing dropped, deduplicated or reordered; the length is the sum of the
\* rules' output lengths.
C17_RunConcatenatesInRegistrationOrder ==
    RunnerHasRun =>
        LET n == Len(RegisteredRules(registered))
            all == Unwrap(findings)
        IN /\ Len(all) = FindingsBefore(n + 1)
           /\ \A i \in 1..n :
                SubSeq(all, FindingsBefore(i) + 1, FindingsBefore(i + 1))
                    = OwnFindings(i)

\* with_default_rules, then add_rule of a rule the defaults already hold:
\* two rules emit, one of them twice, on one public undocumented function
\* and one call of unwrap.
C17_Witness ==
    /\ RunnerHasRun
    /\ registered = <<[method |-> "with_default_rules"],
                      [method |-> "add_rule", rule |-> "UnwrapInPublicApi"]>>
    /\ Len(Unwrap(klepto).functions) = 1 /\ Len(Unwrap(klepto).calls) = 1
    /\ Len(Unwrap(findings)) = 3
    /\ Unwrap(findings)[2] = Unwrap(findings)[3]
    /\ Unwrap(findings)[1].code = "KLEP001"

\* The functions the undocumented-public-API rule is to report.
PublicUndocumented ==
    SelectSeq(Unwrap(klepto).functions, LAMBDA f : f.is_public = TRUE /\ f.has_docs = FALSE)

\* C18: the undocumented-public-API rule emits exactly one finding, in fact
\* order, for each function with is_public = true and has_docs = false, with
\* the fq name in the message, and none for any other function.
C18_OneFindingPerPublicUndocumented ==
    ranRule = Some("UndocumentedPublicApi") =>
        /\ Len(Unwrap(findings)) = Len(PublicUndocumented)
        /\ \A j \in DOMAIN PublicUndocumented :
              /\ str_contains(Unwrap(findings)[j].message, PublicUndocumented[j].fq_name)
              /\ Unwrap(findings)[j].location = PublicUndocumented[j].location
        /\ Len(PublicUndocumented) = 1 /\ Len(Unwrap(klepto).functions) = 1
              => Len(Unwrap(findings)) = 1

\* A documented public function before an undocumented one: one finding,
\* naming the second.
C18_Witness ==
    /\ ranRule = Some("UndocumentedPublicApi")
    /\ Len(Unwrap(klepto).functions) = 2
    /\ Unwrap(klepto).functions[1].has_docs
    /\ Len(PublicUndocumented) = 1
    /\ Len(Unwrap(findings)) = 1
    /\ str_contains(Unwrap(findings)[1].message, <<"c", ":", ":", "g">>)

\* str::ends_with
ends_with(s, pat) ==
    Len(pat) <= Len(s) /\ SubSeq(s, Len(s) - Len(pat) + 1, Len(s)) = pat

\* The callee is one of the two names, or ends with a member access onto
\* one of them.
IsPanicAccessor(callee) ==
    \E name \in {unwrap, expect} :
        \/ callee = name
        \/ \E access \in {<<".">>, <<".", " ">>, <<":", ":">>, <<":", ":", " ">>} :
              ends_with(callee, access \o name)

\* The calls the risky-call rule is to report.
RiskyCalls ==
    SelectSeq(Unwrap(klepto).calls, LAMBDA c :
        c.enclosing_public = Some(TRUE) /\ IsPanicAccessor(c.callee))

\* C19: the risky-call rule emits a finding for a call iff its
\* enclosing_public is Some(true) and its callee is unwrap or expect or ends
\* with a member access onto one of them; a callee that only contains one of
\* the names (unwrap_or, expected) yields no finding.
C19_FindingIffPanicAccessor ==
    ranRule = Some("UnwrapInPublicApi") =>
        /\ Len(Unwrap(findings)) = Len(RiskyCalls)
        /\ \A j \in DOMAIN RiskyCalls :
              ends_with(Unwrap(findings)[j].message, RiskyCalls[j].callee)

\* The invocations the panic-style-macro rule is to report.
PanicStyle ==
    SelectSeq(Unwrap(klepto).macros_inv, LAMBDA m :
        m.enclosing_public = Some(TRUE) /\ m.name \in {panic, todo, unreachable})

\* C20: the panic-style-macro rule emits exactly one finding for each macro
\* invocation whose enclosing_public is Some(true) and whose name is panic,
\* todo or unreachable, and none for any other invocation.
C20_OneFindingPerPanicStyleMacro ==
    ranRule = Some("PanicMacrosInPublicApi") =>
        /\ Len(Unwrap(findings)) = Len(PanicStyle)
        /\ \A j \in DOMAIN PanicStyle :
              /\ str_contains(Unwrap(findings)[j].message, PanicStyle[j].name)
              /\ Unwrap(findings)[j].location = PanicStyle[j].location

\* todo! inside a public function after panic! at module scope (or inside a
\* private function): one finding, for the todo!.
C20_Witness ==
    /\ ranRule = Some("PanicMacrosInPublicApi")
    /\ Len(Unwrap(klepto).macros_inv) = 2
    /\ Unwrap(klepto).macros_inv[1].name = panic
    /\ Unwrap(klepto).macros_inv[1].enclosing_public # Some(TRUE)
    /\ Len(PanicStyle) = 1
    /\ Len(Unwrap(findings)) = 1
    /\ str_contains(Unwrap(findings)[1].message, todo)

(***************************************************************************)
(* Standard-library usage in a crate that declared no_std: the flag set by *)
(* the extraction loop of KleptoBuilder::parse (klepto.rs:347-362) and the  *)
(* rule that reads it (rules/builtin.rs:105-142).                          *)
(***************************************************************************)
\* ParsedFile: the inner attributes of the file, its use declarations and
\* its other items (syn's visitor reaches no syn::Path inside a use tree).
ParsedFile(attrs, uses, body) == [attrs |-> attrs, uses |-> uses, body |-> body]

\* `use std::sync::Arc;`, `use serde::Serialize;`, `const _ = std::x;`,
\* `const _ = stdx::y;`, nothing; each with and without #![no_std]; and
\* #![allow] before `use ::std::x;`.
NoStdContents ==
    {<<<<ItemUse(FALSE, FALSE,
            UsePath(Str("std"), UsePath(Str("sync"), UseName(Str("Arc")))))>>, <<>>>>,
     <<<<ItemUse(FALSE, FALSE, UsePath(Str("serde"), UseName(Str("Serialize"))))>>,
       <<>>>>,
     <<<<>>, <<ItemConst(ExprPath(<<Str("std"), Str("x")>>))>>>>,
     <<<<>>, <<ItemConst(ExprPath(<<<<"std", "x">>, Str("y")>>))>>>>,
     <<<<>>, <<>>>>}

NoStdUnits ==
    {ParsedFile(a, c[1], c[2]) : a \in {<<>>, <<Str("no_std")>>}, c \in NoStdContents}
    \cup {ParsedFile(<<Str("allow")>>,
                     <<ItemUse(FALSE, TRUE, UsePath(Str("std"), UseName(Str("x"))))>>,
                     <<>>)}

\* extract.rs:93-95
crate_is_no_std(attrs) == \E i \in DOMAIN attrs : attrs[i] = Str("no_std")

InitNoStd ==
    /\ LocatedIdle
    /\ UseSitesIdle
    /\ MergeIdle
    /\ VisitIdle
    /\ AbsImportsIdle
    /\ ExportsIdle
    /\ ParseFilesIdle
    /\ DocCovIdle
    /\ DiffIdle /\ ImportsIdle /\ ClassifyIdle /\ SetsIdle /\ ParseIdle
    /\ OccIdle /\ RulesIdle /\ ImpQueryIdle /\ FnQueryIdle /\ IndexIdle
    /\ FqIdle
    /\ nsFiles \in BoundedSeq(NoStdUnits, MaxFiles)
    /\ nsNext = 1
    /\ nsKlepto = Some([no_std_detected |-> FALSE, imports |-> <<>>, paths |-> <<>>])
    /\ nsFindings = None

\* klepto.rs:349-362: one iteration of `for pf in &files`
NoStdExtractFile ==
    /\ nsFindings = None /\ nsNext <= Len(nsFiles)
    /\ LET pf == nsFiles[nsNext]
           k == Unwrap(nsKlepto)
       IN nsKlepto' = Some(
            [no_std_detected |-> IF crate_is_no_std(pf.attrs) THEN TRUE
                                 ELSE k.no_std_detected,
             imports |-> k.imports \o extract_imports(pf.uses),
             paths |-> k.paths \o extract_occurrences(pf.body).paths])
    /\ nsNext' = nsNext + 1
    /\ UNCHANGED <<nsFiles, nsFindings, notNoStd>>

\* StdInNoStdCrate::run on the Klepto value parse returned
NoStdRun ==
    /\ nsFindings = None /\ nsNext > Len(nsFiles)
    /\ nsFindings' = Some(StdInNoStdCrate_run(Unwrap(nsKlepto)))
    /\ UNCHANGED <<nsFiles, nsNext, nsKlepto, notNoStd>>

NextNoStd == NoStdExtractFile \/ NoStdRun

SpecNoStd == InitNoStd /\ [][NextNoStd]_vars

\* Some unit declared no_std.
DeclaredNoStd == \E i \in DOMAIN nsFiles : Str("no_std") \in Range(nsFiles[i].attrs)

\* The first segment of a path text: what stands before its first "::".
RECURSIVE FirstSegment(_)
FirstSegment(path) ==
    IF path = <<>> \/ Head(path) = "::" THEN <<>>
    ELSE <<Head(path)>> \o FirstSegment(Tail(path))

StdImports == SelectSeq(Unwrap(nsKlepto).imports, LAMBDA i : i.root = Str("std"))
StdPaths == SelectSeq(Unwrap(nsKlepto).paths, LAMBDA p : FirstSegment(p.path) = Str("std"))

\* C21: the std-in-no-std rule emits nothing when no unit declared no_std;
\* when one did, it emits one finding per import whose root is std, with
\* the import's full path in the message, then one per path occurrence whose
\* first segment is std, and nothing else.  A no_std unit holding only
\* `use std::sync::Arc;` gives one finding, naming std::sync::Arc.
C21_StdFindingsOnlyWhenNoStd ==
    IsSome(nsFindings) =>
        LET out == Unwrap(nsFindings)
        IN /\ ~DeclaredNoStd => out = <<>>
           /\ DeclaredNoStd =>
                /\ Len(out) = Len(StdImports) + Len(StdPaths)
                /\ \A j \in DOMAIN StdImports :
                      str_contains(out[j].message, StdImports[j].full_path)
                /\ \A j \in DOMAIN StdPaths :
                      str_contains(out[Len(StdImports) + j].message, StdPaths[j].path)
           /\ nsFiles = <<ParsedFile(<<Str("no_std")>>,
                            <<ItemUse(FALSE, FALSE, UsePath(Str("std"),
                                UsePath(Str("sync"), UseName(Str("Arc")))))>>, <<>>)>>
                => /\ Len(out) = 1
                   /\ str_contains(out[1].message,
                                   <<"std", "::", "sync", "::", "Arc">>)

\* A std path in a unit without the attribute, then a std import in a
\* no_std unit: the import's finding comes first, the path's second.
C21_Witness ==
    /\ IsSome(nsFindings)
    /\ Len(nsFiles) = 2
    /\ ~crate_is_no_std(nsFiles[1].attrs) /\ crate_is_no_std(nsFiles[2].attrs)
    /\ Len(StdPaths) = 1 /\ Len(StdImports) = 1
    /\ Len(Unwrap(nsFindings)) = 2
    /\ str_contains(Unwrap(nsFindings)[1].message, <<"std", "::", "sync", "::", "Arc">>)
    /\ str_contains(Unwrap(nsFindings)[2].message, <<"std", "::", "x">>)

(***************************************************************************)
(* Doc coverage: Klepto::doc_coverage (klepto.rs:90-95).                   *)
(*                                                                         *)
(* The f64 percent is held as the fraction it is the nearest double of, in *)
(* lowest terms: two fractions with denominators this small that differ    *)
(* are far more than one ulp apart, so equal doubles are equal fractions.  *)
(***************************************************************************)
MaxDocFns == 3

RECURSIVE Gcd(_, _)
Gcd(a, b) == IF b = 0 THEN a ELSE Gcd(b, a % b)

\* a / b as f64, b > 0
F64Div(a, b) == [num |-> a \div Gcd(a, b), den |-> b \div Gcd(a, b)]

\* the f64 literal 100.0
F64_100 == [num |-> 100, den |-> 1]

\* The functions counted: public or not, documented or not.
DocFns == {RuleFn(<<"c", ":", ":", "f">>, p, d) : p \in BOOLEAN, d \in BOOLEAN}

\* Iterator::filter(..).count()
count(s, P(_)) == Len(SelectSeq(s, P))

\* klepto.rs:90-95
doc_coverage_ZeroWhenEmpty(fns) ==
    LET public_total == count(fns, LAMBDA f : f.is_public)
        public_documented == count(fns, LAMBDA f : f.is_public /\ f.has_docs)
        percent == IF public_total = 0 THEN F64Div(0, 1)
                   ELSE F64Div(public_documented * 100, public_total)
    IN [public_total |-> public_total, public_documented |-> public_documented,
        percent |-> percent]
doc_coverage(fns) ==
    LET public_total == count(fns, LAMBDA f : f.is_public)
        public_documented == count(fns, LAMBDA f : f.is_public /\ f.has_docs)
        percent == IF public_total = 0 THEN F64_100
                   ELSE F64Div(public_documented * 100, public_total)
    IN [public_total |-> public_total, public_documented |-> public_documented,
        percent |-> percent]

InitDocCov ==
    /\ LocatedIdle
    /\ UseSitesIdle
    /\ MergeIdle
    /\ VisitIdle
    /\ AbsImportsIdle
    /\ ExportsIdle
    /\ ParseFilesIdle
    /\ DiffIdle /\ ImportsIdle /\ ClassifyIdle /\ SetsIdle /\ ParseIdle
    /\ OccIdle /\ NoStdIdle /\ RulesIdle /\ ImpQueryIdle /\ FnQueryIdle
    /\ IndexIdle /\ FqIdle
    /\ dcFunctions \in BoundedSeq(DocFns, MaxDocFns)
    /\ dcOut = None

DocCoverage ==
    /\ dcOut = None
    /\ dcOut' = Some(doc_coverage(dcFunctions))
    /\ UNCHANGED <<dcFunctions, notDocCov>>

NextDocCov == DocCoverage

SpecDocCov == InitDocCov /\ [][NextDocCov]_vars

\* The public functions of the collection, and the documented ones of them.
PublicIdx == {i \in DOMAIN dcFunctions : dcFunctions[i].is_public}
PublicDocumentedIdx == {i \in PublicIdx : dcFunctions[i].has_docs}

\* percent * total = documented * 100, the fractions cross-multiplied
IsPercentOf(percent, documented, total) ==
    percent.num * total = documented * 100 * percent.den

\* C22 as stated: percent is exactly 100.0 if and only if public_total = 0.
C22_HundredIffNoPublic ==
    IsSome(dcOut) =>
        (Unwrap(dcOut).percent = F64_100 <=> Unwrap(dcOut).public_total = 0)

\* C22, amended: percent is exactly 100.0 if public_total = 0, and in general
\* exactly when every public function is documented; for public_total > 0 it
\* is public_documented * 100 / public_total; the counts are those of the
\* public and of the documented public functions, so documented <= total.
C22_PercentOfDocumentedPublic ==
    IsSome(dcOut) =>
        LET c == Unwrap(dcOut)
        IN /\ c.public_total = Cardinality(PublicIdx)
           /\ c.public_documented = Cardinality(PublicDocumentedIdx)
           /\ c.public_documented <= c.public_total
           /\ c.public_total = 0 => c.percent = F64_100
           /\ c.public_total > 0 =>
                IsPercentOf(c.percent, c.public_documented, c.public_total)
           /\ c.percent = F64_100 <=> c.public_documented = c.public_total

\* Three public functions, one of them documented, beside none private:
\* a third of a hundred.
C22_Witness ==
    /\ IsSome(dcOut)
    /\ Cardinality(PublicIdx) = 3 /\ Cardinality(PublicDocumentedIdx) = 1
    /\ Unwrap(dcOut).percent = [num |-> 100, den |-> 3]

(***************************************************************************)
(* Per-file failures: the parsing part of KleptoBuilder::parse             *)
(* (klepto.rs:283-315) and parse_one (klepto.rs:393-408).  A candidate is  *)
(* its path with what the file system and the parser make of it.  The      *)
(* feature parallel is a choice of the build.                              *)
(***************************************************************************)
MaxCandidates == 3

\* Result<T, E>
Ok(v) == [ok |-> TRUE, value |-> v]
Err(e) == [ok |-> FALSE, error |-> e]

\* What a file is: readable Rust, larger than max_file_size, unreadable,
\* not Rust.
FileKinds == {"rust", "too_large", "unreadable", "syntax_error"}

Candidate(path, kind) == [path |-> path, kind |-> kind]

\* The candidate lists: the i-th file is f<i>.rs.
CandidateLists ==
    UNION {{[i \in 1..n |-> Candidate(<<"f", i, ".rs">>, kinds[i])] :
                kinds \in [1..n -> FileKinds]} : n \in 0..MaxCandidates}

\* klepto.rs:393-408
parse_one(c) ==
    CASE c.kind = "unreadable" -> Err([kind |-> "Io", path |-> c.path])
      [] c.kind = "too_large" -> Ok(None)
      [] c.kind = "syntax_error" -> Err([kind |-> "Parse", path |-> c.path])
      [] c.kind = "rust" -> Ok(Some([path |-> c.path]))

InitParseFiles ==
    /\ LocatedIdle
    /\ UseSitesIdle
    /\ MergeIdle
    /\ VisitIdle
    /\ AbsImportsIdle
    /\ ExportsIdle
    /\ DiffIdle /\ ImportsIdle /\ ClassifyIdle /\ SetsIdle /\ ParseIdle
    /\ OccIdle /\ DocCovIdle /\ NoStdIdle /\ RulesIdle /\ ImpQueryIdle
    /\ FnQueryIdle /\ IndexIdle /\ FqIdle
    /\ candidates \in CandidateLists
    /\ ignore_parse_errors \in BOOLEAN
    /\ parallel \in BOOLEAN
    /\ pfPc = "parsing"
    /\ pfNext = 1
    /\ pfV = <<>>
    /\ parsed = None
    /\ parseResult = None

\* klepto.rs:298-308, one iteration of the loop of the build without the
\* feature parallel: the `?` on parse_one's result returns from parse().
ParseOneSequential ==
    /\ pfPc = "parsing" /\ ~parallel /\ pfNext <= Len(candidates)
    /\ LET r == parse_one(candidates[pfNext])
       IN IF ~r.ok
          THEN /\ parseResult' = Some(Err(r.error))
               /\ pfPc' = "returned"
               /\ UNCHANGED <<pfNext, pfV, parsed>>
          ELSE /\ pfV' = IF IsSome(r.value) THEN Append(pfV, Unwrap(r.value)) ELSE pfV
               /\ pfNext' = pfNext + 1
               /\ UNCHANGED <<pfPc, parsed, parseResult>>
    /\ UNCHANGED <<candidates, ignore_parse_errors, parallel, notParseFiles>>

\* klepto.rs:307: the loop is over, the block's value is Ok(v)
ParseSequentialDone ==
    /\ pfPc = "parsing" /\ ~parallel /\ pfNext > Len(candidates)
    /\ parsed' = Some(Ok(pfV))
    /\ pfPc' = "matching"
    /\ UNCHANGED <<candidates, ignore_parse_errors, parallel, pfNext, pfV,
                   parseResult, notParseFiles>>

\* The ParsedFiles of the candidates that parse_one gives one for, in order.
RECURSIVE parsed_files(_)
parsed_files(cs) ==
    IF cs = <<>> THEN <<>>
    ELSE LET r == parse_one(Head(cs))
         IN (IF r.ok /\ IsSome(r.value) THEN <<Unwrap(r.value)>> ELSE <<>>)
            \o parsed_files(Tail(cs))

\* klepto.rs:284-296, the build with the feature parallel: the parallel
\* iterator collects into Ok of the files in order, or into the error of
\* one of the failing candidates, whichever a worker met first.
ParseParallel ==
    /\ pfPc = "parsing" /\ parallel
    /\ LET failing == {i \in DOMAIN candidates : ~parse_one(candidates[i]).ok}
       IN IF failing = {}
          THEN parsed' = Some(Ok(parsed_files(candidates)))
          ELSE \E i \in failing :
                    parsed' = Some(Err(parse_one(candidates[i]).error))
    /\ pfPc' = "matching"
    /\ UNCHANGED <<candidates, ignore_parse_errors, parallel, pfNext, pfV,
                   parseResult, notParseFiles>>

\* klepto.rs:310-315 and the return at 369-381: the Klepto value holds the
\* files, and the facts extracted from them.
ParseMatch ==
    /\ pfPc = "matching"
    /\ LET p == Unwrap(parsed)
       IN parseResult' =
            Some(IF p.ok THEN Ok([files |-> p.value])
                 ELSE IF ignore_parse_errors THEN Ok([files |-> <<>>])
                 ELSE Err(p.error))
    /\ pfPc' = "returned"
    /\ UNCHANGED <<candidates, ignore_parse_errors, parallel, pfNext, pfV, parsed,
                   notParseFiles>>

NextParseFiles ==
    ParseOneSequential \/ ParseSequentialDone \/ ParseParallel \/ ParseMatch

SpecParseFiles == InitParseFiles /\ [][NextParseFiles]_vars

\* The candidates whose reading or parsing fails.
Failing == {i \in DOMAIN candidates : candidates[i].kind \in {"unreadable", "syntax_error"}}

\* The paths of the candidates that are parsed: readable Rust within the
\* size limit.
GoodPaths ==
    LET good == SelectSeq(candidates, LAMBDA c : c.kind = "rust")
    IN [i \in DOMAIN good |-> good[i].path]

ReturnedPaths ==
    LET fs == Unwrap(parseResult).value.files
    IN [i \in DOMAIN fs |-> fs[i].path]

FirstFailing == CHOOSE i \in Failing : \A j \in Failing : i <= j

\* C23: with ignore_parse_errors disabled the first failure makes parse()
\* return that error and no fact set; with it enabled only the offending
\* file is skipped, and every other candidate is parsed and contributes to
\* the returned Klepto.
C23_FailuresByCallersChoice ==
    pfPc = "returned" =>
        LET r == Unwrap(parseResult)
        IN IF ignore_parse_errors \/ Failing = {}
           THEN r.ok /\ ReturnedPaths = GoodPaths
           ELSE ~r.ok /\ r.error.path = candidates[FirstFailing].path

(***************************************************************************)
(* Public surface: extract_public_surface (extract.rs:97-185), beside      *)
(* extract_imports on the same unit.                                       *)
(***************************************************************************)
\* ExportedSymbol (extract.rs:123-128)
ExportedSymbol(exported_as, segs, module_path) ==
    [exported_as |-> exported_as, source_path |-> Join(segs, "::"),
     module_path |-> module_path, location |-> span_to_location(UnitPath)]

\* extract_public_surface::walk (extract.rs:101-154)
RECURSIVE export_walk(_, _, _)
RECURSIVE export_walk_group(_, _, _)
export_walk(tree, prefix, module_path) ==
    CASE tree.t = "Path" -> export_walk(tree.tree, Append(prefix, tree.ident), module_path)
      [] tree.t = "Group" -> export_walk_group(tree.items, prefix, module_path)
      [] tree.t = "Name" ->
            <<ExportedSymbol(tree.ident, Append(prefix, tree.ident), module_path)>>
      [] tree.t = "Rename" ->
            <<ExportedSymbol(tree.rename, Append(prefix, tree.ident), module_path)>>
      [] tree.t = "Glob" ->
            <<ExportedSymbol(Str("*"), Append(prefix, Str("*")), module_path)>>
      [] OTHER -> <<>>
\* The loop of the Group arm (extract.rs:113-117)
export_walk_group(items, prefix, module_path) ==
    IF items = <<>> THEN <<>>
    ELSE export_walk(Head(items), prefix, module_path)
         \o export_walk_group(Tail(items), prefix, module_path)

\* extract_public_surface::walk_items (extract.rs:157-180)
RECURSIVE export_walk_items(_, _)
export_walk_items(items, mod_stack) ==
    IF items = <<>> THEN <<>>
    ELSE
        LET it == Head(items)
            here ==
                CASE it.t = "Use" ->
                        IF it.vis_public THEN export_walk(it.tree, <<>>, mod_stack)
                        ELSE <<>>
                  [] it.t = "Mod" ->
                        IF IsSome(it.content)
                        THEN export_walk_items(Unwrap(it.content),
                                               Append(mod_stack, it.ident))
                        ELSE <<>>
                  [] OTHER -> <<>>
        IN here \o export_walk_items(Tail(items), mod_stack)

\* extract.rs:182-184
extract_public_surface(items) == export_walk_items(items, <<>>)

InitExports ==
    /\ LocatedIdle
    /\ UseSitesIdle
    /\ MergeIdle
    /\ VisitIdle
    /\ AbsImportsIdle
    /\ DiffIdle /\ ImportsIdle /\ ClassifyIdle /\ SetsIdle /\ ParseIdle
    /\ OccIdle /\ ParseFilesIdle /\ DocCovIdle /\ NoStdIdle /\ RulesIdle
    /\ ImpQueryIdle /\ FnQueryIdle /\ IndexIdle /\ FqIdle
    /\ expFile \in {Some(u) : u \in ImportUnits(MaxNodes - 1)}
    /\ expOut = None
    /\ expImports = None

ExtractPublicSurface ==
    /\ IsSome(expFile) /\ expOut = None
    /\ expOut' = Some(extract_public_surface(Unwrap(expFile)))
    /\ UNCHANGED <<expFile, expImports, notExports>>

ExtractUnitImports ==
    /\ IsSome(expFile) /\ expImports = None
    /\ expImports' = Some(extract_imports(Unwrap(expFile)))
    /\ UNCHANGED <<expFile, expOut, notExports>>

NextExports == ExtractPublicSurface \/ ExtractUnitImports

SpecExports == InitExports /\ [][NextExports]_vars

\* The root-and-segments paths of the public-use imports of the unit.
PublicUsePaths ==
    LET pub == SelectSeq(Unwrap(expImports), LAMBDA i : i.is_public_use)
    IN [i \in DOMAIN pub |-> Join(<<pub[i].root>> \o pub[i].segments, "::")]

ExportSourcePaths ==
    [i \in DOMAIN Unwrap(expOut) |-> Unwrap(expOut)[i].source_path]

\* C24: the exports are the leaves of the `pub use` declarations, flattened
\* as the imports are: for every unit the source paths of the exports, in
\* order, are the root-and-segments paths of the imports with is_public_use
\* set, in order, a bare self leaf included.
C24_ExportsFlattenLikeImports ==
    IsSome(expOut) /\ IsSome(expImports) => ExportSourcePaths = PublicUsePaths

(***************************************************************************)
(* Leading-separator imports: extract_imports (extract.rs:278-502) on one  *)
(* declaration written as `use a::b;` and as `use ::a::b;`.                *)
(***************************************************************************)
InitAbsImports ==
    /\ LocatedIdle
    /\ UseSitesIdle
    /\ MergeIdle
    /\ VisitIdle
    /\ DiffIdle /\ ImportsIdle /\ ClassifyIdle /\ SetsIdle /\ ParseIdle
    /\ OccIdle /\ ExportsIdle /\ ParseFilesIdle /\ DocCovIdle /\ NoStdIdle
    /\ RulesIdle /\ ImpQueryIdle /\ FnQueryIdle /\ IndexIdle /\ FqIdle
    /\ absDecl \in {Some([vis_public |-> p, tree |-> tr]) :
                        p \in BOOLEAN, tr \in UseTrees(MaxNodes - 1)}
    /\ absPlainOut = None
    /\ absLeadingOut = None

\* extract_imports of `use <tree>;`
ExtractPlain ==
    /\ IsSome(absDecl) /\ absPlainOut = None
    /\ absPlainOut' = Some(extract_imports(
            <<ItemUse(Unwrap(absDecl).vis_public, FALSE, Unwrap(absDecl).tree)>>))
    /\ UNCHANGED <<absDecl, absLeadingOut, notAbsImports>>

\* extract_imports of `use ::<tree>;`
ExtractLeading ==
    /\ IsSome(absDecl) /\ absLeadingOut = None
    /\ absLeadingOut' = Some(extract_imports(
            <<ItemUse(Unwrap(absDecl).vis_public, TRUE, Unwrap(absDecl).tree)>>))
    /\ UNCHANGED <<absDecl, absPlainOut, notAbsImports>>

NextAbsImports == ExtractPlain \/ ExtractLeading

SpecAbsImports == InitAbsImports /\ [][NextAbsImports]_vars

\* C25: a use tree written with a leading separator and the same tree
\* written without it give the same number of imports in the same order
\* with the same root, segments and kind; the absolute tag is set exactly on
\* the imports of the declaration with the leading separator.
C25_LeadingSeparatorOnlyTags ==
    IsSome(absPlainOut) /\ IsSome(absLeadingOut) =>
        LET plain == Unwrap(absPlainOut)
            leading == Unwrap(absLeadingOut)
        IN /\ Len(plain) = Len(leading)
           /\ \A i \in DOMAIN plain :
                /\ plain[i].root = leading[i].root
                /\ plain[i].segments = leading[i].segments
                /\ plain[i].kind = leading[i].kind
                /\ plain[i].is_absolute = Some(FALSE)
                /\ leading[i].is_absolute = Some(TRUE)

\* A group of two leaves behind a prefix: two imports either way, of
\* different kinds, tagged in the second extraction only.
C25_Witness ==
    /\ IsSome(absPlainOut) /\ IsSome(absLeadingOut)
    /\ Unwrap(absDecl).tree.t = "Path"
    /\ Len(Unwrap(absPlainOut)) = 2 /\ Len(Unwrap(absLeadingOut)) = 2
    /\ Unwrap(absPlainOut)[1].kind # Unwrap(absPlainOut)[2].kind
    /\ Unwrap(absPlainOut)[1].segments # <<>>
    /\ Unwrap(absLeadingOut)[2].is_absolute = Some(TRUE)
    /\ Unwrap(absPlainOut)[2].is_absolute = Some(FALSE)

(***************************************************************************)
(* One item entered and left in a given context: the occurrence visitor    *)
(* (extract.rs:832-1069), the walk of extract_functions (extract.rs:513-   *)
(* 635) and the index builder (index.rs:138-245).                          *)
(***************************************************************************)
\* The contexts an item is met in: at the top of the file; inside module m;
\* inside a method of impl T for S in module m; inside a default method of
\* trait T.
VisitContexts ==
    {[mod_stack |-> <<>>, impl_self_ty |-> None, impl_trait_ty |-> None,
      in_trait |-> None, current_fn |-> None, current_fn_is_public |-> None],
     [mod_stack |-> <<Str("m")>>, impl_self_ty |-> None, impl_trait_ty |-> None,
      in_trait |-> None, current_fn |-> None, current_fn_is_public |-> None],
     [mod_stack |-> <<Str("m")>>, impl_self_ty |-> Some(Str("S")),
      impl_trait_ty |-> Some(Str("T")), in_trait |-> None,
      current_fn |-> Some(<<"mycrate", "::", "m", "::", "S", "::", "run">>),
      current_fn_is_public |-> Some(FALSE)],
     [mod_stack |-> <<>>, impl_self_ty |-> None, impl_trait_ty |-> None,
      in_trait |-> Some(Str("T")),
      current_fn |-> Some(<<"mycrate", "::", "T", "::", "m">>),
      current_fn_is_public |-> Some(TRUE)]}

\* The items entered: every item that makes up a unit on its own.
VisitNodes(max) == {u[1] : u \in {w \in OccUnits(max) : Len(w) = 1}}

\* The visitor V in context c, nothing recorded yet.
V_in(c) ==
    [V_default EXCEPT !.mod_stack = c.mod_stack, !.impl_self_ty = c.impl_self_ty,
                      !.impl_trait_ty = c.impl_trait_ty, !.in_trait = c.in_trait,
                      !.current_fn = c.current_fn,
                      !.current_fn_is_public = c.current_fn_is_public]

\* The Builder in context c, nothing pushed yet.
Builder_in(c) ==
    [Builder_new EXCEPT !.mod_stack = c.mod_stack, !.impl_self_ty = c.impl_self_ty,
                        !.impl_trait_ty = c.impl_trait_ty, !.in_trait = c.in_trait]

InitVisit ==
    /\ LocatedIdle
    /\ UseSitesIdle
    /\ MergeIdle
    /\ DiffIdle /\ ImportsIdle /\ ClassifyIdle /\ SetsIdle /\ ParseIdle
    /\ OccIdle /\ AbsImportsIdle /\ ExportsIdle /\ ParseFilesIdle /\ DocCovIdle
    /\ NoStdIdle /\ RulesIdle /\ ImpQueryIdle /\ FnQueryIdle /\ IndexIdle
    /\ FqIdle
    /\ vsNode \in {Some(n) : n \in VisitNodes(MaxAstNodes)}
    /\ vsContext \in {Some(c) : c \in VisitContexts}
    /\ vsAfter = None
    /\ vsBuilderAfter = None
    /\ vsFns = None

\* V::visit_item on the item
VisitOccurrences ==
    /\ IsSome(vsNode) /\ vsAfter = None
    /\ vsAfter' = Some(visit_node(V_in(Unwrap(vsContext)), Unwrap(vsNode)))
    /\ UNCHANGED <<vsNode, vsContext, vsBuilderAfter, vsFns, notVisit>>

\* Builder::visit_item on the item
VisitBuilder ==
    /\ IsSome(vsNode) /\ vsBuilderAfter = None
    /\ vsBuilderAfter' =
            Some(Builder_visit_node(Builder_in(Unwrap(vsContext)), Unwrap(vsNode)))
    /\ UNCHANGED <<vsNode, vsContext, vsAfter, vsFns, notVisit>>

\* extract_functions::walk_items on the item, with the module stack of the
\* context
WalkFunctions ==
    /\ IsSome(vsNode) /\ vsFns = None
    /\ vsFns' = Some(functions_walk_items(<<Unwrap(vsNode)>>,
                                          Unwrap(vsContext).mod_stack))
    /\ UNCHANGED <<vsNode, vsContext, vsAfter, vsBuilderAfter, notVisit>>

NextVisit == VisitOccurrences \/ VisitBuilder \/ WalkFunctions

SpecVisit == InitVisit /\ [][NextVisit]_vars

\* The module paths the occurrence facts of a node should carry, by the
\* inline modules around each: the path is handed down, a module appends
\* its name.
OccAt(vec, mods) == [vec |-> vec, module_path |-> mods]
PathAt(p, mods) == IF PathRecorded(p) THEN <<OccAt("paths", mods)>> ELSE <<>>

RECURSIVE ModPathsIn(_, _), ModPathsAll(_, _)
ModPathsIn(n, mods) ==
    CASE n.t = "Mod" ->
            IF IsSome(n.content)
            THEN ModPathsAll(Unwrap(n.content), Append(mods, n.ident))
            ELSE <<>>
      [] n.t = "Trait" -> ModPathsAll(n.items, mods)
      [] n.t = "Impl" ->
            (IF IsSome(n.trait_) THEN PathAt(Unwrap(n.trait_), mods) ELSE <<>>)
            \o PathAt(n.self_ty, mods) \o ModPathsAll(n.items, mods)
      [] n.t \in {"Fn", "ImplFn"} ->
            (IF n.vis.vis = "Restricted" THEN PathAt(n.vis.path, mods) ELSE <<>>)
            \o ModPathsAll(n.block, mods)
      [] n.t = "TraitFn" ->
            IF IsSome(n.default) THEN ModPathsAll(Unwrap(n.default), mods) ELSE <<>>
      [] n.t = "Const" -> ModPathsIn(n.expr, mods)
      [] n.t \in {"ItemMacro", "ExprMacro"} ->
            <<OccAt("macros_inv", mods)>> \o PathAt(n.path, mods)
      [] n.t = "ExprPath" -> PathAt(n.path, mods)
      [] n.t = "ExprCall" -> <<OccAt("calls", mods)>> \o ModPathsIn(n.func, mods)
      [] n.t = "ExprMethodCall" ->
            <<OccAt("calls", mods)>> \o ModPathsIn(n.receiver, mods)
ModPathsAll(nodes, mods) ==
    IF nodes = <<>> THEN <<>>
    ELSE ModPathsIn(Head(nodes), mods) \o ModPathsAll(Tail(nodes), mods)

\* The module paths the function facts of an item should carry.
RECURSIVE FnModPathsIn(_, _), FnModPathsAll(_, _)
FnModPathsIn(n, mods) ==
    CASE n.t = "Mod" ->
            IF IsSome(n.content)
            THEN FnModPathsAll(Unwrap(n.content), Append(mods, n.ident))
            ELSE <<>>
      [] n.t = "Fn" -> <<mods>>
      [] n.t \in {"Impl", "Trait"} ->
            [i \in DOMAIN SelectSeq(n.items, LAMBDA m : m.t \in {"ImplFn", "TraitFn"})
                |-> mods]
      [] OTHER -> <<>>
FnModPathsAll(nodes, mods) ==
    IF nodes = <<>> THEN <<>>
    ELSE FnModPathsIn(Head(nodes), mods) \o FnModPathsAll(Tail(nodes), mods)

ModulePathsOf(facts) == [i \in DOMAIN facts |-> facts[i].module_path]

ExpectedModulePaths(vec) ==
    LET all == SelectSeq(ModPathsIn(Unwrap(vsNode), Unwrap(vsContext).mod_stack),
                         LAMBDA a : a.vec = vec)
    IN [i \in DOMAIN all |-> all[i].module_path]

\* C26: the module-path stack is pushed on entering an inline module and
\* popped on leaving it: every fact's module_path is the names of the inline
\* modules around it, outermost first; and once the traversal has left a
\* module, impl, trait or function, the module path, the enclosing-type
\* context and the function context are what they were before it entered.
C26_ModulePathAndContextRestored ==
    LET c == Unwrap(vsContext)
    IN /\ IsSome(vsAfter) =>
            /\ \A vec \in {"macros_inv", "paths", "calls"} :
                  ModulePathsOf(Unwrap(vsAfter)[vec]) = ExpectedModulePaths(vec)
            /\ \A field \in DOMAIN c : Unwrap(vsAfter)[field] = c[field]
       /\ IsSome(vsBuilderAfter) =>
            \A field \in {"mod_stack", "impl_self_ty", "impl_trait_ty", "in_trait"} :
                Unwrap(vsBuilderAfter)[field] = c[field]
       /\ IsSome(vsFns) =>
            ModulePathsOf(Unwrap(vsFns)) = FnModPathsIn(Unwrap(vsNode), c.mod_stack)

\* Inside module m, within impl T for S: a module holding a function with a
\* call has been entered and left by all three traversals.
C26_Witness ==
    /\ IsSome(vsAfter) /\ IsSome(vsBuilderAfter) /\ IsSome(vsFns)
    /\ Unwrap(vsContext).mod_stack = <<Str("m")>>
    /\ IsSome(Unwrap(vsContext).impl_self_ty)
    /\ Unwrap(vsNode).t = "Mod"
    /\ Len(Unwrap(vsAfter).calls) = 1
    /\ Len(Unwrap(vsAfter).calls[1].module_path) = 2
    /\ Len(Unwrap(vsFns)) = 1 /\ Len(Unwrap(vsFns)[1].module_path) = 2
    /\ Len(Unwrap(vsBuilderAfter).out) = 1
    /\ Unwrap(vsAfter).mod_stack = <<Str("m")>>

(***************************************************************************)
(* Merging indices: EnclosingIndex::merge (index.rs:57-62), as the loop of *)
(* KleptoBuilder::parse calls it (klepto.rs:364-367).  by_file is a        *)
(* function from the paths that have an entry to their vectors.            *)
(***************************************************************************)
MaxMerges == 2

\* Spans of three functions of file p: f over both lines, g inside f on
\* line 1, h without position data.
MergeSpans(p) ==
    {FnSpan(<<"mycrate", "::", "f">>, TRUE, FreeFn, p,
            [start |-> Some(<<1, 0>>), end |-> Some(<<2, 1>>)]),
     FnSpan(<<"mycrate", "::", "g">>, FALSE, FreeFn, p,
            [start |-> Some(<<1, 1>>), end |-> Some(<<1, 1>>)]),
     FnSpan(<<"mycrate", "::", "h">>, TRUE, FreeFn, p, [start |-> None, end |-> None])}

\* EnclosingIndex::default()
EnclosingIndex_default == <<>>

\* The indices merged in: the one entry EnclosingIndex::build inserts for
\* its file (index.rs:52-54), its vector possibly empty.
IndicesOf(p) == {[q \in {p} |-> v] : v \in BoundedSeq(MergeSpans(p), MaxSpans - 1)}
MergedIndices == IndicesOf("src/a.rs") \cup IndicesOf("src/b.rs")

\* The locations asked for.
MergeLocations ==
    {FileLocation(p, Some(l), Some(1)) : p \in IndexPaths, l \in IndexLines}

\* index.rs:57-62
merge_Replace(self, other) ==
    [k \in DOMAIN self \cup DOMAIN other |->
        IF k \in DOMAIN other THEN other[k] ELSE self[k]]
merge(self, other) ==
    [k \in DOMAIN self \cup DOMAIN other |->
        (IF k \in DOMAIN self THEN self[k] ELSE <<>>)
        \o (IF k \in DOMAIN other THEN other[k] ELSE <<>>)]

InitMerge ==
    /\ LocatedIdle
    /\ UseSitesIdle
    /\ DiffIdle /\ ImportsIdle /\ ClassifyIdle /\ SetsIdle /\ ParseIdle
    /\ OccIdle /\ VisitIdle /\ AbsImportsIdle /\ ExportsIdle /\ ParseFilesIdle
    /\ DocCovIdle /\ NoStdIdle /\ RulesIdle /\ ImpQueryIdle /\ FnQueryIdle
    /\ IndexIdle /\ FqIdle
    /\ mgIndex = EnclosingIndex_default
    /\ mgPrev = EnclosingIndex_default
    /\ mgMerged = <<>>
    /\ mgQuery = None

\* klepto.rs:366: index = index.merge(other)
Merge(other) ==
    /\ mgQuery = None /\ Len(mgMerged) < MaxMerges
    /\ mgPrev' = mgIndex
    /\ mgIndex' = merge(mgIndex, other)
    /\ mgMerged' = Append(mgMerged, other)
    /\ UNCHANGED <<mgQuery, notMerge>>

\* enclosing(l) on the index before and after the last merge
MergeEnclosing(l) ==
    /\ mgQuery = None /\ mgMerged # <<>>
    /\ mgQuery' = Some([loc |-> l, before |-> enclosing(mgPrev, l),
                        after |-> enclosing(mgIndex, l)])
    /\ UNCHANGED <<mgIndex, mgPrev, mgMerged, notMerge>>

NextMerge ==
    \/ \E other \in MergedIndices : Merge(other)
    \/ \E l \in MergeLocations : MergeEnclosing(l)

SpecMerge == InitMerge /\ [][NextMerge]_vars

\* The spans an index holds for file p.
SpansFor(index, p) == IF p \in DOMAIN index THEN index[p] ELSE <<>>

\* The spans of the merged indices for file p, one index after the other.
RECURSIVE MergedSpansFor(_, _)
MergedSpansFor(indices, p) ==
    IF indices = <<>> THEN <<>>
    ELSE SpansFor(Head(indices), p) \o MergedSpansFor(Tail(indices), p)

\* C27: merge is append-only by file: after any sequence of merges the spans
\* stored for a file are the merged indices' spans for it, concatenated in
\* merge order; merging an index that holds no span for file F leaves
\* enclosing(L) unchanged for every location L in F.
C27_MergeAppendsByFile ==
    /\ \A p \in IndexPaths : SpansFor(mgIndex, p) = MergedSpansFor(mgMerged, p)
    /\ IsSome(mgQuery) =>
          LET q == Unwrap(mgQuery)
          IN SpansFor(mgMerged[Len(mgMerged)], q.loc.path) = <<>>
                => q.after = q.before

\* Two indices of src/a.rs merged one after the other, the second empty:
\* the location inside the first's span is found before and after.
C27_Witness ==
    /\ Len(mgMerged) = 2
    /\ DOMAIN mgMerged[1] = {"src/a.rs"} /\ DOMAIN mgMerged[2] = {"src/a.rs"}
    /\ Len(mgMerged[1]["src/a.rs"]) = 1 /\ mgMerged[2]["src/a.rs"] = <<>>
    /\ IsSome(mgQuery)
    /\ Unwrap(mgQuery).loc.path = "src/a.rs"
    /\ IsSome(Unwrap(mgQuery).before)
    /\ Unwrap(mgQuery).after = Unwrap(mgQuery).before
(***************************************************************************)
(* The use-site views (use_sites.rs): the imports, the path occurrences    *)
(* and the macro invocations of a Klepto, narrowed to a set of roots and   *)
(* brought to one shape.                                                   *)
(***************************************************************************)

\* str::trim
RECURSIVE trim_start(_), trim_end(_)
trim_start(s) == IF s # <<>> /\ Head(s) = " " THEN trim_start(Tail(s)) ELSE s
trim_end(s) ==
    IF s # <<>> /\ s[Len(s)] = " " THEN trim_end(SubSeq(s, 1, Len(s) - 1)) ELSE s
trim(s) == trim_end(trim_start(s))

\* str::split: the pieces between the separators, an empty string giving
\* one empty piece
RECURSIVE split(_, _)
split(s, sep) ==
    IF \A i \in DOMAIN s : s[i] # sep THEN <<s>>
    ELSE LET i == CHOOSE j \in DOMAIN s :
                    s[j] = sep /\ \A k \in 1..(j - 1) : s[k] # sep
         IN <<SubSeq(s, 1, i - 1)>> \o split(SubSeq(s, i + 1, Len(s)), sep)

\* use_sites.rs:9-22
split_dep_path(raw) ==
    LET t == trim(raw)
        s == IF t # <<>> /\ Head(t) = "::" THEN Tail(t) ELSE t
        it == split(s, "::")
        dep == Head(it)
        rest == Tail(it)
    IN IF rest = <<>> THEN None
       ELSE Some([dep |-> dep, head |-> rest[1],
                  full |-> dep \o <<"::">> \o Join(rest, "::")])

\* use_sites.rs:24-32
scope_from_IgnoresFn(enclosing_fn, module_path) ==
    IF module_path = <<>> THEN Str("file")
    ELSE <<"crate", "::">> \o Join(module_path, "::")
scope_from(enclosing_fn, module_path) ==
    IF IsSome(enclosing_fn) THEN Unwrap(enclosing_fn)
    ELSE IF module_path = <<>> THEN Str("file")
    ELSE <<"crate", "::">> \o Join(module_path, "::")

\* UseSite (model.rs)
UseSite(dep, path, head, kind, location, scope) ==
    [dep |-> dep, path |-> path, head |-> head, kind |-> kind,
     location |-> location, scope |-> scope]

\* the concatenation of what a loop body pushes for every element
RECURSIVE Flatten(_)
Flatten(ss) == IF ss = <<>> THEN <<>> ELSE Head(ss) \o Flatten(Tail(ss))
PushedFor(s, F(_)) == Flatten([i \in DOMAIN s |-> F(s[i])])

\* The three loops of both views; root_ok is the test on the root.
use_site_of_import(imp, root_ok(_)) ==
    IF ~root_ok(imp.root) THEN <<>>
    ELSE <<UseSite(imp.root, imp.full_path,
                   IF imp.segments # <<>> THEN imp.segments[1] ELSE Str("*"),
                   "UseStmt", imp.location,
                   scope_from(None, imp.module_path))>>
use_site_of_path(p, root_ok(_)) ==
    LET sp == split_dep_path(p.path)
    IN IF ~IsSome(sp) THEN <<>>
       ELSE IF ~root_ok(Unwrap(sp).dep) THEN <<>>
       ELSE <<UseSite(Unwrap(sp).dep, Unwrap(sp).full, Unwrap(sp).head,
                      "Path", p.location,
                      scope_from(p.enclosing_fn, p.module_path))>>
use_site_of_macro(m, root_ok(_)) ==
    IF ~IsSome(m.path) THEN <<>>
    ELSE LET sp == split_dep_path(Unwrap(m.path))
         IN IF ~IsSome(sp) THEN <<>>
            ELSE IF ~root_ok(Unwrap(sp).dep) THEN <<>>
            ELSE <<UseSite(Unwrap(sp).dep, Unwrap(sp).full, Unwrap(sp).head,
                           "MacroCall", m.location,
                           scope_from(m.enclosing_fn, m.module_path))>>

\* use_sites.rs:36-118
dep_use_sites(k, used_deps) ==
    LET used == {norm_crate_root(d) : d \in used_deps}
        ok(r) == norm_crate_root(r) \in used
        of_import(imp) == use_site_of_import(imp, ok)
        of_path(p) == use_site_of_path(p, ok)
        of_macro(m) == use_site_of_macro(m, ok)
    IN PushedFor(k.imports, of_import) \o PushedFor(k.paths, of_path)
       \o PushedFor(k.macros_inv, of_macro)

\* use_sites.rs:121-195
internal_use_sites(k) ==
    LET crate_id == norm_crate_root(k.crate_name)
        is_internal_root(r) ==
            \/ r \in {Str("crate"), Str("self"), Str("super")}
            \/ norm_crate_root(r) = crate_id
        of_import(imp) == use_site_of_import(imp, is_internal_root)
        of_path(p) == use_site_of_path(p, is_internal_root)
        of_macro(m) == use_site_of_macro(m, is_internal_root)
    IN PushedFor(k.imports, of_import) \o PushedFor(k.paths, of_path)
       \o PushedFor(k.macros_inv, of_macro)

\* A unit of use declarations only: the occurrence visitor finds no macro,
\* path or call in it.
RECURSIVE UseOnly(_)
UseOnly(items) ==
    \A i \in DOMAIN items :
        \/ items[i].t = "Use"
        \/ /\ items[i].t = "Mod"
           /\ IsSome(items[i].content) => UseOnly(Unwrap(items[i].content))

\* Klepto after parse() of one unit, with the fields the views read.
UseSiteKlepto(items) ==
    LET occ == IF UseOnly(items)
               THEN [macros_inv |-> <<>>, paths |-> <<>>, calls |-> <<>>]
               ELSE extract_occurrences(items)
    IN [crate_name |-> CrateName, imports |-> extract_imports(items),
        paths |-> occ.paths, macros_inv |-> occ.macros_inv]

my_dep == <<"my", "_", "dep">>
\* foo::mac!() and paths under my_dep, crate and mycrate, at the top of the
\* file, in a module, and in a function of a module
DottedOccurrences ==
    {ItemMacro(<<Str("foo"), Str("mac")>>),
     ItemConst(ExprPath(<<my_dep, Str("x")>>)),
     ItemConst(ExprPath(<<Str("crate"), Str("x")>>)),
     ItemConst(ExprMacro(<<Str("mycrate"), Str("mac")>>))}
DottedUnits ==
    {<<o>> : o \in DottedOccurrences}
    \cup {<<ItemMod(Str("m"), Some(<<o>>))>> : o \in DottedOccurrences}
    \cup {<<ItemMod(Str("m"), Some(<<ItemFn(VisPublic, Str("f"), <<o>>)>>))>> :
            o \in DottedOccurrences}
\* my_dep::x at the top of the file, in module m, and in m's function f
ThreeScopesUnit ==
    LET x == ExprPath(<<my_dep, Str("x")>>)
    IN <<ItemConst(x),
         ItemMod(Str("m"), Some(<<ItemConst(x), ItemFn(VisPublic, Str("f"), <<x>>)>>))>>
UseSiteUnits(max) ==
    OccUnits(max) \cup ImportUnits(max - 1) \cup DottedUnits \cup {ThreeScopesUnit}

\* the dependency names of the manifest
UsedDepSets ==
    {{}, {Str("std"), Str("foo")}, {Str("foo"), <<"my", "-", "dep">>}}

InitUseSites ==
    /\ LocatedIdle
    /\ DiffIdle /\ ImportsIdle /\ ClassifyIdle /\ SetsIdle /\ ParseIdle
    /\ OccIdle /\ MergeIdle /\ VisitIdle /\ AbsImportsIdle /\ ExportsIdle
    /\ ParseFilesIdle /\ DocCovIdle /\ NoStdIdle /\ RulesIdle /\ ImpQueryIdle
    /\ FnQueryIdle /\ IndexIdle /\ FqIdle
    /\ usKlepto \in {Some(UseSiteKlepto(u)) : u \in UseSiteUnits(MaxAstNodes)}
    /\ usUsed \in UsedDepSets
    /\ usDepOut = None
    /\ usIntOut = None

DepUseSites ==
    /\ IsSome(usKlepto) /\ usDepOut = None
    /\ usDepOut' = Some(dep_use_sites(Unwrap(usKlepto), usUsed))
    /\ UNCHANGED <<usKlepto, usUsed, usIntOut, notUseSites>>

InternalUseSites ==
    /\ IsSome(usKlepto) /\ usIntOut = None
    /\ usIntOut' = Some(internal_use_sites(Unwrap(usKlepto)))
    /\ UNCHANGED <<usKlepto, usUsed, usDepOut, notUseSites>>

NextUseSites == DepUseSites \/ InternalUseSites

SpecUseSites == InitUseSites /\ [][NextUseSites]_vars
(***************************************************************************)
(* Claims about the use-site views.                                        *)
(***************************************************************************)

\* The label of a scope: the enclosing function's fq name, else "file" at
\* the top of the file, else the module path after the given prefix.
ScopeLabel(enclosing_fn, module_path, prefix) ==
    IF IsSome(enclosing_fn) THEN Unwrap(enclosing_fn)
    ELSE IF module_path = <<>> THEN Str("file")
    ELSE <<prefix, "::">> \o Join(module_path, "::")

\* A root counts as used when a used dependency has its name, hyphens and
\* underscores being the same; as internal when it is crate, self, super or
\* the crate's own name.
RootUsed(r) == \E d \in usUsed : norm_crate_root(d) = norm_crate_root(r)
RootInternal(r) ==
    \/ r \in {Str("crate"), Str("self"), Str("super")}
    \/ norm_crate_root(r) = norm_crate_root(Unwrap(usKlepto).crate_name)
Dotted(path) == "::" \in Range(path)

\* The scope labels, in the order of the view, of the facts whose root
\* passes the test: imports (no enclosing function), then dotted paths,
\* then dotted macro invocations.
SourceScopes(root_ok(_), prefix) ==
    LET k == Unwrap(usKlepto)
        imps == SelectSeq(k.imports, LAMBDA i : root_ok(i.root))
        pths == SelectSeq(k.paths,
                    LAMBDA q : Dotted(q.path) /\ root_ok(FirstSegment(q.path)))
        macs == SelectSeq(k.macros_inv,
                    LAMBDA m : /\ IsSome(m.path)
                               /\ Dotted(Unwrap(m.path))
                               /\ root_ok(FirstSegment(Unwrap(m.path))))
    IN [i \in DOMAIN imps |-> ScopeLabel(None, imps[i].module_path, prefix)]
       \o [i \in DOMAIN pths |->
            ScopeLabel(pths[i].enclosing_fn, pths[i].module_path, prefix)]
       \o [i \in DOMAIN macs |->
            ScopeLabel(macs[i].enclosing_fn, macs[i].module_path, prefix)]
ScopesOf(sites) == [i \in DOMAIN sites |-> sites[i].scope]
ScopesLabelled(prefix) ==
    /\ IsSome(usDepOut) =>
            ScopesOf(Unwrap(usDepOut)) = SourceScopes(RootUsed, prefix)
    /\ IsSome(usIntOut) =>
            ScopesOf(Unwrap(usIntOut)) = SourceScopes(RootInternal, prefix)

\* C28 as stated: the scope label of a use site is the enclosing function's
\* fq name when there is one, else "file" when the module path is empty,
\* else "module::" followed by the module path joined by "::"; a use site
\* made from an import has no enclosing function.
C28_ScopeLabelModulePrefix == ScopesLabelled("module")

\* C28, amended: the scope label of a use site is the enclosing function's
\* fq name when there is one, else "file" when the module path is empty,
\* else "crate::" followed by the module path joined by "::"; a use site
\* made from an import has no enclosing function, so its label is one of
\* the last two.
C28_ScopeLabelCratePrefix ==
    /\ ScopesLabelled("crate")
    /\ \A o \in {usDepOut, usIntOut} :
        IsSome(o) =>
            \A i \in DOMAIN Unwrap(o) :
                Unwrap(o)[i].kind = "UseStmt" =>
                    \/ Unwrap(o)[i].scope = Str("file")
                    \/ \E j \in DOMAIN Unwrap(usKlepto).imports :
                        /\ Unwrap(usKlepto).imports[j].module_path # <<>>
                        /\ Unwrap(o)[i].scope =
                            <<"crate", "::">>
                            \o Join(Unwrap(usKlepto).imports[j].module_path, "::")

\* dep_use_sites with my-dep among the used dependencies, of a unit that
\* names my_dep::x at the top of the file, in module m and in m's function
\* f: three use sites, labelled file, crate::m and mycrate::m::f.
C28_Witness ==
    /\ IsSome(usDepOut)
    /\ ScopesOf(Unwrap(usDepOut)) =
        <<Str("file"), <<"crate", "::", "m">>, <<"mycrate", "::", "m", "::", "f">>>>
(***************************************************************************)
(* The build with the span-locations feature: a span is the line and       *)
(* column where a node starts and where it ends, lines counted from 1 and  *)
(* columns from 0.  The units below are laid out as text, every statement  *)
(* and every closing brace either on a line of its own or after a space    *)
(* on the line before it stopped.                                          *)
(***************************************************************************)

Advance(cur, w) == <<cur[1], cur[2] + w>>
\* where the next token starts: on the next line, or after a space
BreakOr(cur, newline) == IF newline THEN <<cur[1] + 1, 0>> ELSE Advance(cur, 1)

Spanned(n, start, end) ==
    [f \in DOMAIN n \cup {"span"} |->
        IF f = "span" THEN [start |-> start, end |-> end] ELSE n[f]]

\* a::b::c, identifiers of one column and separators of two
PathWidth(p) == 3 * Len(p) - 2
\* `pub `, `pub(crate) ` and nothing
VisWidth(vis) ==
    CASE vis.vis = "Public" -> 4
      [] vis.vis = "Restricted" -> 11
      [] OTHER -> 0
\* the path of pub(crate) starts after `pub(`
PlaceVis(vis, at) ==
    IF vis.vis = "Restricted"
    THEN Spanned(vis, Advance(at, 4), Advance(at, 4 + PathWidth(vis.path)))
    ELSE vis

\* An expression laid out from `at` on: the node with its span and the
\* spans of its parts.
RECURSIVE PlaceExpr(_, _)
PlaceExpr(e, at) ==
    CASE e.t = "ExprPath" ->
            Spanned(e, at, Advance(at, PathWidth(e.path)))
      [] e.t = "ExprMacro" ->
            Spanned(e, at, Advance(at, PathWidth(e.path) + 3))
      [] e.t = "ExprCall" ->
            LET f == PlaceExpr(e.func, at)
            IN Spanned([e EXCEPT !.func = f], at, Advance(f.span.end, 2))
      [] e.t = "ExprMethodCall" ->
            LET r == PlaceExpr(e.receiver, at)
            IN Spanned([e EXCEPT !.receiver = r], at, Advance(r.span.end, 4))

\* A statement or an item laid out after the cursor; brk[k] says whether
\* it starts a line, and the flags after it are those of its parts and of
\* its closing brace.  Gives the node, the cursor after it and the next
\* flag.
RECURSIVE Place(_, _, _, _), PlaceAll(_, _, _, _)
PlaceBraced(n, at, header, body, brk, k) ==
    LET inner == PlaceAll(body, Advance(at, header), brk, k)
        end == Advance(BreakOr(inner.cur, brk[inner.k]), 1)
    IN [nodes |-> inner.nodes, at |-> at, end |-> end, k |-> inner.k + 1]
Place(n, cur, brk, k) ==
    LET at == BreakOr(cur, brk[k])
    IN CASE n.t \in {"ExprMacro", "ExprPath", "ExprCall", "ExprMethodCall"} ->
                LET e == PlaceExpr(n, at)
                IN [node |-> e, cur |-> Advance(e.span.end, 1), k |-> k + 1]
         [] n.t = "ItemMacro" ->
                LET end == Advance(at, PathWidth(n.path) + 5)
                IN [node |-> Spanned(n, at, end), cur |-> end, k |-> k + 1]
         [] n.t = "Const" ->
                LET e == PlaceExpr(n.expr, Advance(at, 14))
                    end == Advance(e.span.end, 1)
                IN [node |-> Spanned([n EXCEPT !.expr = e], at, end),
                    cur |-> end, k |-> k + 1]
         [] n.t \in {"Fn", "ImplFn"} ->
                LET b == PlaceBraced(n, at, VisWidth(n.vis) + 8, n.block, brk, k + 1)
                IN [node |-> Spanned([n EXCEPT !.block = b.nodes,
                                               !.vis = PlaceVis(n.vis, at)],
                                     at, b.end),
                    cur |-> b.end, k |-> b.k]
         [] n.t = "TraitFn" ->
                IF IsSome(n.default)
                THEN LET b == PlaceBraced(n, at, 8, Unwrap(n.default), brk, k + 1)
                     IN [node |-> Spanned([n EXCEPT !.default = Some(b.nodes)],
                                          at, b.end),
                         cur |-> b.end, k |-> b.k]
                ELSE [node |-> Spanned(n, at, Advance(at, 7)),
                      cur |-> Advance(at, 7), k |-> k + 1]
         [] n.t = "Mod" ->
                IF IsSome(n.content)
                THEN LET b == PlaceBraced(n, at, 7, Unwrap(n.content), brk, k + 1)
                     IN [node |-> Spanned([n EXCEPT !.content = Some(b.nodes)],
                                          at, b.end),
                         cur |-> b.end, k |-> b.k]
                ELSE [node |-> Spanned(n, at, Advance(at, 6)),
                      cur |-> Advance(at, 6), k |-> k + 1]
         [] n.t \in {"Trait", "Impl"} ->
                LET header == IF n.t = "Trait" THEN 9
                              ELSE IF IsSome(n.trait_) THEN 14 ELSE 8
                    b == PlaceBraced(n, at, header, n.items, brk, k + 1)
                IN [node |-> Spanned([n EXCEPT !.items = b.nodes], at, b.end),
                    cur |-> b.end, k |-> b.k]
PlaceAll(nodes, cur, brk, k) ==
    IF nodes = <<>> THEN [nodes |-> <<>>, cur |-> cur, k |-> k]
    ELSE LET first == Place(Head(nodes), cur, brk, k)
             rest == PlaceAll(Tail(nodes), first.cur, brk, first.k)
         IN [nodes |-> <<first.node>> \o rest.nodes, cur |-> rest.cur, k |-> rest.k]

\* the flags a layout of the nodes takes: one for every statement and item
\* and one for every closing brace
RECURSIVE BreakPoints(_)
BreakPointsOf(n) ==
    CASE n.t \in {"Fn", "ImplFn"} -> 2 + BreakPoints(n.block)
      [] n.t = "TraitFn" ->
            IF IsSome(n.default) THEN 2 + BreakPoints(Unwrap(n.default)) ELSE 1
      [] n.t = "Mod" ->
            IF IsSome(n.content) THEN 2 + BreakPoints(Unwrap(n.content)) ELSE 1
      [] n.t \in {"Trait", "Impl"} -> 2 + BreakPoints(n.items)
      [] OTHER -> 1
BreakPoints(nodes) ==
    IF nodes = <<>> THEN 0
    ELSE BreakPointsOf(Head(nodes)) + BreakPoints(Tail(nodes))

\* the unit as the text of a file, the first token at line 1, column 0
LaidOut(items, brk) == PlaceAll(items, <<1, -1>>, brk, 1).nodes
Layouts(items) ==
    {LaidOut(items, brk) : brk \in [1..BreakPoints(items) -> BOOLEAN]}

\* extract.rs:6-15 and index.rs:89-95, with the span-locations feature
span_to_location_spans(file_path, sp) ==
    [path |-> file_path, line |-> Some(sp.start[1]), column |-> Some(sp.start[2])]
span_start_end_spans(sp) == [start |-> Some(sp.start), end |-> Some(sp.end)]

\* The spans the visitors read, in the order they come to the nodes: a
\* node before its parts, the parts in the order of the text.  what is
\* "macro" for the macro invocations, "call" for the calls, "path" for the
\* paths that are kept and "fn" for the functions.  (The type and the
\* trait of the impl blocks here are single identifiers, never kept.)
RECURSIVE SpansRead(_, _)
SpansReadAt(n, what) ==
    LET own ==
            CASE what = "macro" ->
                    IF n.t \in {"ItemMacro", "ExprMacro"} THEN <<n.span>> ELSE <<>>
              [] what = "call" ->
                    IF n.t \in {"ExprCall", "ExprMethodCall"} THEN <<n.span>> ELSE <<>>
              [] what = "fn" ->
                    IF n.t \in {"Fn", "ImplFn", "TraitFn"} THEN <<n.span>> ELSE <<>>
              [] what = "path" ->
                    IF n.t \in {"ItemMacro", "ExprMacro", "ExprPath"} /\ PathRecorded(n.path)
                    THEN <<n.span>>
                    ELSE IF /\ n.t \in {"Fn", "ImplFn"}
                            /\ n.vis.vis = "Restricted"
                            /\ PathRecorded(n.vis.path)
                    THEN <<n.vis.span>>
                    ELSE <<>>
    IN own \o SpansRead(ChildrenOf(n), what)
SpansRead(nodes, what) ==
    IF nodes = <<>> THEN <<>>
    ELSE SpansReadAt(Head(nodes), what) \o SpansRead(Tail(nodes), what)

\* extract_occurrences with the feature: the same facts, each at the start
\* of the span of its node (extract.rs:961, 995, 1039, 1052, 1064)
extract_occurrences_spans(items) ==
    LET occ == extract_occurrences(items)
        at(facts, what) ==
            [i \in DOMAIN facts |->
                [facts[i] EXCEPT !.location =
                    span_to_location_spans(UnitPath, SpansRead(items, what)[i])]]
    IN [macros_inv |-> at(occ.macros_inv, "macro"),
        paths |-> at(occ.paths, "path"),
        calls |-> at(occ.calls, "call")]

\* EnclosingIndex::build with the feature (index.rs:37-55): the same
\* spans, each with the start and the end of its function, sorted by start
\* line and stored under the unit's path
EnclosingIndex_build_spans(items) ==
    LET out == Builder_visit_all(Builder_new, items).out
        spans == SpansRead(items, "fn")
        placed == [i \in DOMAIN out |->
                    [out[i] EXCEPT
                        !.start = span_start_end_spans(spans[i]).start,
                        !.end = span_start_end_spans(spans[i]).end]]
    IN [p \in {UnitPath} |-> sort_by_start(placed)]

\* The units, s being the statement of the function bodies:
\* fn f() { s fn g() { s } s }          a function inside a function
\* fn f() { s } fn g() { s }            two functions side by side
\* mod m { pub fn f() { s } } const C: T = s;
\* impl S { pub fn new() { s fn g() { s } } }
\* trait T { fn m() { s } }
\* fn f() { impl S { fn run() { s } } s }
\* pub(crate) fn h() { s }
LocatedUnitsWith(s) ==
    {<<ItemFn(VisInherited, Str("f"),
              <<s, ItemFn(VisInherited, Str("g"), <<s>>), s>>)>>,
     <<ItemFn(VisInherited, Str("f"), <<s>>), ItemFn(VisPublic, Str("g"), <<s>>)>>,
     <<ItemMod(Str("m"), Some(<<ItemFn(VisPublic, Str("f"), <<s>>)>>)), ItemConst(s)>>,
     <<ItemImpl(<<Str("S")>>, None,
                <<ImplItemFn(VisPublic, Str("new"),
                             <<s, ItemFn(VisInherited, Str("g"), <<s>>)>>)>>)>>,
     <<ItemTrait(Str("T"), <<TraitItemFn(Str("m"), Some(<<s>>))>>)>>,
     <<ItemFn(VisInherited, Str("f"),
              <<ItemImpl(<<Str("S")>>, None,
                         <<ImplItemFn(VisInherited, Str("run"), <<s>>)>>), s>>)>>,
     <<ItemFn(VisRestricted(<<Str("crate")>>), Str("h"), <<s>>)>>}
\* panic!(), std::process::exit(), x.unwrap()
LocatedStmts ==
    {ExprMacro(<<Str("panic")>>),
     ExprCall(ExprPath(<<Str("std"), Str("process"), Str("exit")>>)),
     ExprMethodCall(ExprPath(<<Str("x")>>), Str("unwrap"))}

InitLocated ==
    /\ DiffIdle /\ ImportsIdle /\ ClassifyIdle /\ SetsIdle /\ ParseIdle
    /\ OccIdle /\ UseSitesIdle /\ MergeIdle /\ VisitIdle /\ AbsImportsIdle
    /\ ExportsIdle /\ ParseFilesIdle /\ DocCovIdle /\ NoStdIdle /\ RulesIdle
    /\ ImpQueryIdle /\ FnQueryIdle /\ IndexIdle /\ FqIdle
    /\ \E s \in LocatedStmts : \E u \in LocatedUnitsWith(s) :
            lcUnit \in {Some(l) : l \in Layouts(u)}
    /\ lcFacts = None
    /\ lcIndex = None
    /\ lcLookup = None

\* klepto.rs:347-367: the facts and the index of the unit
LocatedExtract ==
    /\ IsSome(lcUnit) /\ lcFacts = None
    /\ lcFacts' = Some(extract_occurrences_spans(Unwrap(lcUnit)))
    /\ UNCHANGED <<lcUnit, lcIndex, lcLookup, notLocated>>

LocatedBuild ==
    /\ IsSome(lcUnit) /\ lcIndex = None
    /\ lcIndex' = Some(EnclosingIndex_build_spans(Unwrap(lcUnit)))
    /\ UNCHANGED <<lcUnit, lcFacts, lcLookup, notLocated>>

\* enclosing() asked for the location of one of the facts
LocatedEnclosing ==
    /\ IsSome(lcFacts) /\ IsSome(lcIndex) /\ lcLookup = None
    /\ \E fact \in Range(Unwrap(lcFacts).macros_inv)
                   \cup Range(Unwrap(lcFacts).paths)
                   \cup Range(Unwrap(lcFacts).calls) :
            lcLookup' = Some([fact |-> fact,
                              found |-> enclosing(Unwrap(lcIndex), fact.location)])
    /\ UNCHANGED <<lcUnit, lcFacts, lcIndex, notLocated>>

NextLocated == LocatedExtract \/ LocatedBuild \/ LocatedEnclosing

SpecLocated == InitLocated /\ [][NextLocated]_vars
(***************************************************************************)
(* Claims about the two enclosing-function mechanisms.                     *)
(***************************************************************************)

HasPosition(fact) == IsSome(fact.location.line) /\ IsSome(fact.location.column)

\* what enclosing() found is what the fact was annotated with
Agree(fact, found) ==
    IF IsSome(fact.enclosing_fn)
    THEN /\ IsSome(found)
         /\ Unwrap(found).fq_name = Unwrap(fact.enclosing_fn)
         /\ Some(Unwrap(found).is_public) = fact.enclosing_public
    ELSE found = None

\* C29: for every macro-invocation, path and call fact that has position
\* data, enclosing(fact.location) returns a span whose fq_name and
\* is_public are the fact's enclosing_fn and enclosing_public, and returns
\* None exactly when the fact has no enclosing_fn, also for nested
\* functions and for functions that start or end on the same line.
C29_MechanismsAgree ==
    IsSome(lcLookup) =>
        (HasPosition(Unwrap(lcLookup).fact) =>
            Agree(Unwrap(lcLookup).fact, Unwrap(lcLookup).found))
(***************************************************************************)
(* Claims about the functions the annotations and the index name.          *)
(***************************************************************************)

\* some FunctionFact has the fq name and the public flag
IsFunctionFact(fq, is_public) ==
    \E i \in DOMAIN Unwrap(fnOut) :
        /\ Unwrap(fnOut)[i].fq_name = fq
        /\ Unwrap(fnOut)[i].is_public = is_public

\* C30: every enclosing_fn annotation of an occurrence fact, and every
\* fq_name of the span index, is the fq_name of a FunctionFact that
\* extract_functions gave for the same unit, with the same public flag,
\* also for functions declared inside a function body or inside an impl or
\* trait nested in a body.
C30_EnclosingFnIsAFunctionFact ==
    /\ (IsSome(fnOut) /\ IsSome(occOut)) =>
            \A fact \in Range(Unwrap(occOut).macros_inv)
                        \cup Range(Unwrap(occOut).paths)
                        \cup Range(Unwrap(occOut).calls) :
                IsSome(fact.enclosing_fn) =>
                    IsFunctionFact(Unwrap(fact.enclosing_fn),
                                   Unwrap(fact.enclosing_public))
    /\ (IsSome(fnOut) /\ IsSome(idxOut)) =>
            \A f \in Range(Unwrap(idxOut)) : IsFunctionFact(f.fq_name, f.is_public)

====
